---- MODULE Spec2Model ----
(***************************************************************************)
(* A model of alertlib (Khan/alertlib): the per-alert, per-backend rate    *)
(* limiter and the test-mode ("dry-run") flag of alertlib/base.py, the     *)
(* retry loop of alertlib/stackdriver.py, and the send_to_X methods of the *)
(* backends.                                                               *)
(*                                                                         *)
(* Three specifications share the definitions:                             *)
(*   SpecRate   Alert objects with a rate limit, a clock, send_to_X calls  *)
(*   SpecRetry  _call_stackdriver_with_retries and its callers             *)
(*   Spec       the send_to_X methods, in and out of test mode             *)
(***************************************************************************)
EXTENDS Integers, Sequences, FiniteSets, TLC

(***************************************************************************)
(* Bounds of the model.                                                    *)
(***************************************************************************)
MaxTime == 3
MaxCalls == 3
MaxRetries == 2

VARIABLES
    now,          \* time.time(): the clock, which never goes backwards
    rate_limit,   \* rate_limit[a]: self.rate_limit of Alert a
    last_sent,    \* last_sent[a]: self.last_sent of Alert a, a dict
    sent,         \* sent[a][s]: how often the body of send_to_<s> ran on a
    calls         \* calls[a][s]: the calls of send_to_<s> on a, in order,
                  \* each [t |-> the clock, passed |-> what the gate said]

VARIABLES
    TEST_MODE,    \* base._TEST_MODE
    secrets,      \* the names secrets.py defines (base.secret(name) is truthy)
    stackdriver_not_allowed,  \* stackdriver.py:11-24: the imports failed
    GOOGLE_API_CLIENT,        \* stackdriver._GOOGLE_API_CLIENT is not None
    call,         \* the public call in progress or last made, with its arguments
    net,          \* the real network, SMTP and syslog calls of that call, in order
    logs,         \* the log records of that call, in order
    result,       \* "none", "running", "returned" or "raised" (of that call)
    raised        \* the exception that call raised to its caller, or NoExc

VARIABLES
    rpc,          \* _call_stackdriver_with_retries: "idle", "call" (about to
                  \* call fn), "sleep" (in time.sleep), "returned", "raised"
    fn,           \* its argument fn: the outcomes a call of fn can have
    num_retries,  \* its argument num_retries
    wait_time,    \* its argument wait_time, in tenths of a second
    i,            \* its loop variable
    fn_calls,     \* how often it has called fn
    outcomes,     \* what those calls of fn did, in order
    slept,        \* the arguments of its time.sleep calls, in order
    exc,          \* the exception it raised, or NoExc
    ret           \* the value it returned

VARIABLES
    pc,           \* send_to_asana / _send_to_jira: "idle", or the request it
                  \* waits for the response of
    frame,        \* the local variables of that send
    _CACHED_ASANA_PROJECT_MAP,  \* asana.py:32, a dict
    _CACHED_ASANA_TAG_MAP,      \* asana.py:37, a dict
    _CACHED_ASANA_USER_MAP,     \* asana.py:40, a dict
    asana_resolved,             \* history: the kinds of name ("project",
                                \* "user", "tag") that _get_asana_*_ids has
                                \* been called for since the process started
    _GRAPHITE_SOCKET            \* graphite.py:13-14: "None", "connected",
                                \* "unconnected" (socket made, connect failed,
                                \* _LAST_GRAPHITE_TIME set) or "untimed" (the
                                \* same with _LAST_GRAPHITE_TIME still None)

VARIABLES
    script_args,  \* alert.py: the lists of the namespace args that parse_args
                  \* gave, which the script passes to one call after another
    history,      \* history: what the caller has called so far, in order
    other         \* a second thread inside send_to_asana: its position, local
                  \* variables, log records and requests

rate_vars == <<now, rate_limit, last_sent, sent, calls>>

env_vars == <<TEST_MODE, secrets, stackdriver_not_allowed, GOOGLE_API_CLIENT>>

call_vars == <<call, net, logs, result, raised>>

retry_vars ==
    <<rpc, fn, num_retries, wait_time, i, fn_calls, outcomes, slept, exc, ret>>

tracker_vars ==
    <<pc, frame, _CACHED_ASANA_PROJECT_MAP, _CACHED_ASANA_TAG_MAP,
      _CACHED_ASANA_USER_MAP, asana_resolved, _GRAPHITE_SOCKET>>

script_vars == <<script_args, history, other>>

vars == <<rate_vars, env_vars, call_vars, retry_vars, tracker_vars, script_vars>>

(***************************************************************************)
(* Python values.                                                          *)
(***************************************************************************)
None == "None"

\* base.py:129, the default of self.last_sent.get(service, -100000)
NeverSent == -100000

\* d.get(k, default) of a dict modelled as a function
DictGet(d, k, default) == IF k \in DOMAIN d THEN d[k] ELSE default

\* d[k] = v of a dict modelled as a function
DictSet(d, k, v) == [x \in (DOMAIN d) \cup {k} |-> IF x = k THEN v ELSE d[x]]

EmptyDict == [x \in {} |-> None]

SetMax(S) == CHOOSE x \in S : \A y \in S : y <= x

SetMin(S) == CHOOSE x \in S : \A y \in S : x <= y

\* An exception: its type and, for apiclient.errors.HttpError, its status
\* (e.resp['status']) and the phrases of stackdriver.py that str(e) contains.
Exc(type) == [type |-> type, status |-> 0, msg |-> {}]

HttpError(status, msg) == [type |-> "HttpError", status |-> status, msg |-> msg]

NoExc == Exc("none")

\* A log record: logging.info / warning / error(text)
Log(level, text) == [level |-> level, text |-> text]

\* A call out of the process: a request to a service, a mail handed to a
\* transport, a syslog call, or a time.sleep
Req(svc, what, arg) == [svc |-> svc, what |-> what, arg |-> arg]

(***************************************************************************)
(* base.py: the rate limiter and the test-mode flag.                       *)
(***************************************************************************)
Alerts == {"a1", "a2"}

\* The service names the send_to_X methods pass to _passed_rate_limit
\* (graphite.py:55, hipchat.py:67).
RateServices == {"graphite", "hipchat"}

\* rate_limit arguments of Alert(): None (the default), modelled as <<>>, or
\* a number of seconds r, modelled as <<r>>
NoRateLimit == <<>>

RateLimits == {NoRateLimit, <<0>>, <<1>>, <<2>>}

\* Python truth of self.rate_limit (None and 0 are false)
Truthy(r) == r # NoRateLimit /\ r[1] # 0

\* Variants of _passed_rate_limit with a plausible bug each.
passed_rate_limit_ge(self_rate_limit, self_last_sent, service, t) ==
    IF ~Truthy(self_rate_limit)
    THEN [passed |-> TRUE, last_sent |-> self_last_sent]
    ELSE IF t - DictGet(self_last_sent, service, NeverSent) >= self_rate_limit[1]
         THEN [passed |-> TRUE, last_sent |-> DictSet(self_last_sent, service, t)]
         ELSE [passed |-> FALSE, last_sent |-> self_last_sent]

passed_rate_limit_one_slot(self_rate_limit, self_last_sent, service, t) ==
    IF ~Truthy(self_rate_limit)
    THEN [passed |-> TRUE, last_sent |-> self_last_sent]
    ELSE IF t - DictGet(self_last_sent, "any", NeverSent) > self_rate_limit[1]
         THEN [passed |-> TRUE, last_sent |-> DictSet(self_last_sent, "any", t)]
         ELSE [passed |-> FALSE, last_sent |-> self_last_sent]

\* BaseMixin._passed_rate_limit(service) at clock value t: the value
\* returned and self.last_sent afterwards.
_passed_rate_limit(self_rate_limit, self_last_sent, service, t) ==
    IF ~Truthy(self_rate_limit)
    THEN [passed |-> TRUE, last_sent |-> self_last_sent]
    ELSE IF t - DictGet(self_last_sent, service, NeverSent) > self_rate_limit[1]
         THEN [passed |-> TRUE, last_sent |-> DictSet(self_last_sent, service, t)]
         ELSE [passed |-> FALSE, last_sent |-> self_last_sent]

TotalCalls ==
    LET RECURSIVE Sum(_)
        Sum(S) == IF S = {} THEN 0
                  ELSE LET p == CHOOSE q \in S : TRUE
                       IN Len(calls[p[1]][p[2]]) + Sum(S \ {p})
    IN Sum(Alerts \X RateServices)

(***************************************************************************)
(* stackdriver.py: what fn (request.execute) can do.                       *)
(***************************************************************************)
\* stackdriver.py:61, the defaults of num_retries and of wait_time (0.5 s,
\* in tenths of a second)
DefaultNumRetries == 9
DefaultWaitTime == 5

OLDER == "One or more of the points specified was older than the most recent stored point"

RECENT == "Timeseries data must be more recent"

NOT_WRITTEN == "One or more TimeSeries could not be written"

FnReturns == [type |-> "return", status |-> 0, msg |-> {}]

HttpErrors ==
    {HttpError(401, {}), HttpError(403, {}), HttpError(503, {}),
     HttpError(500, {}), HttpError(500, {OLDER}), HttpError(503, {OLDER}),
     HttpError(400, {}), HttpError(400, {RECENT}), HttpError(400, {NOT_WRITTEN}),
     HttpError(400, {RECENT, NOT_WRITTEN})}

\* Every outcome of one call of fn
FnOutcomes ==
    {FnReturns, Exc("socket.error"), Exc("HTTPException"),
     Exc("oauth2client.client.Error"), Exc("RuntimeError")} \cup HttpErrors

\* The outcomes of a callable that can do something else on every call
\* (the tests' mock.Mock(side_effect=...))
MockOutcomes ==
    {FnReturns, Exc("socket.error"), Exc("RuntimeError"), HttpError(503, {}),
     HttpError(401, {}), HttpError(400, {NOT_WRITTEN}),
     HttpError(400, {RECENT}), HttpError(500, {OLDER})}

\* fn with the same outcome on every call
ConstantFns == {{o} : o \in FnOutcomes}

\* fn, by the outcomes a call of it can have: a mock, a callable that
\* fails in one way until it works, or a constant one
Fns == {MockOutcomes} \cup {{o, FnReturns} : o \in FnOutcomes} \cup ConstantFns

FN_RESULT == "fn()"

\* Variants of on_fn with a plausible bug each.
on_fn_retry_everything(o, idx, n) ==
    IF o.type = "return" THEN "return fn()"
    ELSE IF idx = n THEN "raise"
    ELSE IF o.type = "HttpError" /\ o.status = 500 /\ OLDER \in o.msg THEN "return"
    ELSE IF o.type = "HttpError" /\ o.status = 400 /\ RECENT \in o.msg THEN "return"
    ELSE "pass"

on_fn_one_try_less(o, idx, n) ==
    IF o.type = "return" THEN "return fn()"
    ELSE IF o.type \in {"socket.error", "HTTPException", "oauth2client.client.Error"}
    THEN IF idx + 1 >= n THEN "raise" ELSE "pass"
    ELSE IF o.type = "HttpError"
    THEN IF idx + 1 >= n THEN "raise"
         ELSE IF o.status = 500 /\ OLDER \in o.msg THEN "return"
         ELSE IF o.status = 403 \/ o.status >= 500 THEN "pass"
         ELSE IF o.status = 400 /\ RECENT \in o.msg THEN "return"
         ELSE IF o.status = 400 /\ NOT_WRITTEN \in o.msg THEN "pass"
         ELSE "raise"
    ELSE "raise"

on_fn_transient_gives_up(o, idx, n) ==
    IF o.type = "return" THEN "return fn()"
    ELSE IF o.type \in {"socket.error", "HTTPException", "oauth2client.client.Error"}
    THEN "raise"
    ELSE IF o.type = "HttpError"
    THEN IF idx = n THEN "raise"
         ELSE IF o.status = 500 /\ OLDER \in o.msg THEN "return"
         ELSE IF o.status = 403 \/ o.status >= 500 THEN "pass"
         ELSE IF o.status = 400 /\ RECENT \in o.msg THEN "return"
         ELSE IF o.status = 400 /\ NOT_WRITTEN \in o.msg THEN "pass"
         ELSE "raise"
    ELSE "raise"

\* The try statement of _call_stackdriver_with_retries (stackdriver.py:64-
\* 101) on the outcome o of fn() in iteration idx of range(n + 1): it ends
\* in "return fn()", "return" (of None), "raise", or "pass" (the loop goes on
\* to time.sleep).
on_fn(o, idx, n) ==
    IF o.type = "return" THEN "return fn()"
    ELSE IF o.type \in {"socket.error", "HTTPException", "oauth2client.client.Error"}
    THEN IF idx = n THEN "raise" ELSE "pass"
    ELSE IF o.type = "HttpError"
    THEN IF idx = n THEN "raise"
         ELSE IF o.status = 500 /\ OLDER \in o.msg THEN "return"
         ELSE IF o.status = 403 \/ o.status >= 500 THEN "pass"
         ELSE IF o.status = 400 /\ RECENT \in o.msg THEN "return"
         ELSE IF o.status = 400 /\ NOT_WRITTEN \in o.msg THEN "pass"
         ELSE "raise"
    ELSE "raise"

(***************************************************************************)
(* The states in which nothing is going on.                                *)
(***************************************************************************)
NoFn == {}

NoCall == [method |-> "none"]

RateIdle ==
    /\ now = 0
    /\ rate_limit = [a \in Alerts |-> NoRateLimit]
    /\ last_sent = [a \in Alerts |-> EmptyDict]
    /\ sent = [a \in Alerts |-> [s \in RateServices |-> 0]]
    /\ calls = [a \in Alerts |-> [s \in RateServices |-> <<>>]]

CallIdle ==
    /\ call = NoCall
    /\ net = <<>>
    /\ logs = <<>>
    /\ result = "none"
    /\ raised = NoExc

NoFrame == [method |-> "none"]

\* No script, no history kept, no second thread
ScriptIdle ==
    /\ script_args = [bug_tags |-> <<>>, pagerduty |-> <<>>]
    /\ history = <<>>
    /\ other = NoFrame

TrackerIdle ==
    /\ pc = "idle"
    /\ frame = NoFrame
    /\ _CACHED_ASANA_PROJECT_MAP = EmptyDict
    /\ _CACHED_ASANA_TAG_MAP = EmptyDict
    /\ _CACHED_ASANA_USER_MAP = EmptyDict
    /\ asana_resolved = {}
    /\ _GRAPHITE_SOCKET = "None"

RetryIdle ==
    /\ rpc = "idle"
    /\ fn = NoFn
    /\ num_retries = 0
    /\ wait_time = 0
    /\ i = 0
    /\ fn_calls = 0
    /\ outcomes = <<>>
    /\ slept = <<>>
    /\ exc = NoExc
    /\ ret = None

\* The secrets of the tests' fake secrets.py (alertlib_test.py:24-31) and of
\* the code (jira.py:72, alerta.py:85, github.py:15)
AllSecrets ==
    {"hipchat_alertlib_token", "hostedgraphite_api_key",
     "slack_alertlib_webhook_url", "asana_api_token",
     "google_alertlib_service_account", "jira_api_key", "alerta_api_key",
     "github_repo_status_deployment_pat"}

\* base.secret(name), as a truth value
secret(name) == name \in secrets

(***************************************************************************)
(* SpecRate: Alerts with a rate limit.                                     *)
(***************************************************************************)
\* BaseMixin.__init__: every Alert starts with an empty last_sent.
InitRate ==
    /\ now = 0
    /\ rate_limit \in [Alerts -> RateLimits]
    /\ last_sent = [a \in Alerts |-> EmptyDict]
    /\ sent = [a \in Alerts |-> [s \in RateServices |-> 0]]
    /\ calls = [a \in Alerts |-> [s \in RateServices |-> <<>>]]
    /\ TEST_MODE = FALSE
    /\ secrets = AllSecrets
    /\ stackdriver_not_allowed = FALSE
    /\ GOOGLE_API_CLIENT = FALSE
    /\ CallIdle
    /\ RetryIdle
    /\ TrackerIdle
    /\ ScriptIdle

\* The clock advances between calls.
Tick ==
    /\ now < MaxTime
    /\ now' = now + 1
    /\ UNCHANGED <<rate_limit, last_sent, sent, calls>>
    /\ UNCHANGED <<env_vars, call_vars, retry_vars, tracker_vars>>

\* a.send_to_<s>(...): the gate every send_to_X method starts with
\* ("if not self._passed_rate_limit(s): return self"), then its body.
RateSend(a, s) ==
    /\ TotalCalls < MaxCalls
    /\ LET g == _passed_rate_limit(rate_limit[a], last_sent[a], s, now)
       IN /\ last_sent' = [last_sent EXCEPT ![a] = g.last_sent]
          /\ sent' = [sent EXCEPT ![a][s] = IF g.passed THEN @ + 1 ELSE @]
          /\ calls' = [calls EXCEPT ![a][s] =
                          Append(@, [t |-> now, passed |-> g.passed])]
    /\ UNCHANGED <<now, rate_limit>>
    /\ UNCHANGED <<env_vars, call_vars, retry_vars, tracker_vars>>

NextRate ==
    \/ Tick /\ UNCHANGED script_vars
    \/ \E a \in Alerts, s \in RateServices : RateSend(a, s) /\ UNCHANGED script_vars

SpecRate == InitRate /\ [][NextRate]_vars

(***************************************************************************)
(* SpecRetry: _call_stackdriver_with_retries and its callers.              *)
(***************************************************************************)
\* _call_stackdriver_with_retries(f, n, w) on entry.
RetryEnter(f, n, w) ==
    /\ rpc' = "call"
    /\ fn' = f
    /\ num_retries' = n
    /\ wait_time' = w
    /\ i' = 0
    /\ fn_calls' = 0
    /\ outcomes' = <<>>
    /\ slept' = <<>>
    /\ exc' = NoExc
    /\ ret' = None

Busy == result = "running"

\* A test calls _call_stackdriver_with_retries(f, num_retries=n, wait_time=w).
CallWithRetries(f, n, w) ==
    /\ ~Busy
    /\ RetryEnter(f, n, w)
    /\ call' = [method |-> "_call_stackdriver_with_retries"]
    /\ net' = <<>>
    /\ logs' = <<>>
    /\ result' = "running"
    /\ raised' = NoExc
    /\ UNCHANGED <<env_vars, rate_vars, tracker_vars>>

\* One iteration of the loop up to its time.sleep: fn() and the except
\* clauses (stackdriver.py:63-101).
FnCall(o) ==
    /\ rpc = "call"
    /\ o \in fn
    /\ LET todo == on_fn(o, i, num_retries)
       IN /\ fn_calls' = fn_calls + 1
          /\ outcomes' = Append(outcomes, o)
          /\ net' = Append(net, Req("stackdriver", "timeSeries.create", <<>>))
          /\ rpc' = CASE todo = "pass" -> "sleep"
                      [] todo = "raise" -> "raised"
                      [] OTHER -> "returned"
          /\ exc' = IF todo = "raise" THEN o ELSE NoExc
          /\ ret' = IF todo = "return fn()" THEN FN_RESULT ELSE None
    /\ UNCHANGED <<fn, num_retries, wait_time, i, slept>>
    /\ UNCHANGED <<call, logs, result, raised>>
    /\ UNCHANGED <<env_vars, rate_vars, tracker_vars>>

\* Sleep that waits longer after every attempt
SleepLonger ==
    /\ rpc = "sleep"
    /\ slept' = Append(slept, wait_time * (i + 1))
    /\ i' = i + 1
    /\ rpc' = "call"
    /\ UNCHANGED <<fn, num_retries, wait_time, fn_calls, outcomes, exc, ret>>
    /\ UNCHANGED <<env_vars, call_vars, rate_vars, tracker_vars>>

\* time.sleep(wait_time), then the next iteration (stackdriver.py:102, 63).
Sleep ==
    /\ rpc = "sleep"
    /\ slept' = Append(slept, wait_time)
    /\ i' = i + 1
    /\ rpc' = "call"
    /\ UNCHANGED <<fn, num_retries, wait_time, fn_calls, outcomes, exc, ret>>
    /\ UNCHANGED <<env_vars, call_vars, rate_vars, tracker_vars>>

\* _call_stackdriver_with_retries comes back to the test that called it.
CallWithRetriesDone ==
    /\ Busy
    /\ call.method = "_call_stackdriver_with_retries"
    /\ rpc \in {"returned", "raised"}
    /\ result' = rpc
    /\ raised' = exc
    /\ UNCHANGED <<call, net, logs>>
    /\ UNCHANGED <<env_vars, retry_vars, rate_vars, tracker_vars>>

(***************************************************************************)
(* stackdriver.py: send_datapoints_to_stackdriver and send_to_stackdriver. *)
(***************************************************************************)
\* An optional keyword argument: <<>> when the caller leaves it out
Omitted == <<>>

ArgOr(arg, default) == IF arg = Omitted THEN default ELSE arg[1]

\* stackdriver.py:114-115: the prefix 'custom.googleapis.com/' has 22
\* characters, and a metric name at most 100 with it
MetricPrefixLen == 22
MetricNameLimit == 100

\* The characters of the model's strings that the regular expression \w
\* matches
WordChars == {"a", "s", "m", "_", "1"}

\* _get_custom_metric_name that forgets the prefix in its limit
_get_custom_metric_name_whole_limit(name) ==
    IF Len(name) > MetricNameLimit
    THEN [raises |-> TRUE, value |-> <<>>]
    ELSE [raises |-> FALSE,
          value |-> <<"custom.googleapis.com/">> \o
                    [k \in 1..Len(name) |->
                        IF name[k] \in WordChars \cup {"."} THEN name[k] ELSE "_"]]

\* _get_custom_metric_name(name): it raises ValueError, or returns the
\* prefix and name with every character outside [\w_.] turned into '_'
_get_custom_metric_name(name) ==
    IF Len(name) > MetricNameLimit - MetricPrefixLen
    THEN [raises |-> TRUE, value |-> <<>>]
    ELSE [raises |-> FALSE,
          value |-> <<"custom.googleapis.com/">> \o
                    [k \in 1..Len(name) |->
                        IF name[k] \in WordChars \cup {"."} THEN name[k] ELSE "_"]]

\* The metric names send_to_stackdriver is called with
MetricNames ==
    {<<"s", ".", "m">>, <<"s", "#", "%">>,
     [k \in 1..(MetricNameLimit - MetricPrefixLen) |-> "a"],
     [k \in 1..(MetricNameLimit - MetricPrefixLen + 1) |-> "a"]}

\* send_datapoints_to_stackdriver up to its try statement (stackdriver.py:
\* 165-176): the log record of a failed import, then _get_google_apiclient,
\* which builds the client on first use: NameError without the libraries,
\* an error of oauth2client without credentials, else a request for the
\* discovery document that works (build_ok) or raises.
datapoints_prelude(build_ok) ==
    LET log0 == IF stackdriver_not_allowed
                THEN <<Log("ERROR", "Unable to send to stackdriver")>> ELSE <<>>
    IN IF GOOGLE_API_CLIENT
       THEN [logs |-> log0, net |-> <<>>, raises |-> NoExc, client |-> TRUE]
       ELSE IF stackdriver_not_allowed
       THEN [logs |-> log0, net |-> <<>>, raises |-> Exc("NameError"),
             client |-> FALSE]
       ELSE IF ~secret("google_alertlib_service_account")
       THEN [logs |-> log0, net |-> <<>>, raises |-> Exc("ValueError"),
             client |-> FALSE]
       ELSE IF build_ok
       THEN [logs |-> log0, net |-> <<Req("google", "discovery.build", <<>>)>>, raises |-> NoExc,
             client |-> TRUE]
       ELSE [logs |-> log0, net |-> <<Req("google", "discovery.build", <<>>)>>,
             raises |-> Exc("socket.error"), client |-> FALSE]

\* Variants of datapoints_except with a plausible bug each.
datapoints_except_swapped(e, ignore_errors) ==
    LET msg == IF e.type = "HttpError" THEN "CLOUD-MONITORING ERROR sending"
               ELSE "cloud-monitoring error, not sending some data"
    IN IF ~ignore_errors
       THEN [log |-> Log("WARNING", msg), reraise |-> FALSE]
       ELSE [log |-> Log("ERROR", msg), reraise |-> TRUE]

\* The except clause of send_datapoints_to_stackdriver (stackdriver.py:180-
\* 197) on the exception e: the record it logs and whether it re-raises. An
\* HttpError has 'content', and the request 'to_json'.
datapoints_except(e, ignore_errors) ==
    LET msg == IF e.type = "HttpError" THEN "CLOUD-MONITORING ERROR sending"
               ELSE "cloud-monitoring error, not sending some data"
    IN IF ignore_errors
       THEN [log |-> Log("WARNING", msg), reraise |-> FALSE]
       ELSE [log |-> Log("ERROR", msg), reraise |-> TRUE]

RetryReset ==
    /\ rpc' = "idle"
    /\ fn' = NoFn
    /\ num_retries' = 0
    /\ wait_time' = 0
    /\ i' = 0
    /\ fn_calls' = 0
    /\ outcomes' = <<>>
    /\ slept' = <<>>
    /\ exc' = NoExc
    /\ ret' = None

\* send_datapoints_to_stackdriver(..., ignore_errors) from its first line to
\* the call of _call_stackdriver_with_retries(request.execute), where
\* request.execute behaves as f.
DatapointsEnter(f, build_ok) ==
    LET p == datapoints_prelude(build_ok)
    IN /\ GOOGLE_API_CLIENT' = p.client
       /\ net' = p.net
       /\ logs' = p.logs
       /\ IF p.raises # NoExc
          THEN /\ result' = "raised"
               /\ raised' = p.raises
               /\ RetryReset
          ELSE /\ result' = "running"
               /\ raised' = NoExc
               /\ RetryEnter(f, DefaultNumRetries, DefaultWaitTime)

\* A caller calls send_datapoints_to_stackdriver(data, project, ie), the
\* public low-level function.
SendDatapoints(f, ie, build_ok) ==
    /\ ~Busy
    /\ call' = [method |-> "send_datapoints_to_stackdriver",
                ignore_errors |-> ArgOr(ie, TRUE)]
    /\ DatapointsEnter(f, build_ok)
    /\ UNCHANGED <<TEST_MODE, secrets, stackdriver_not_allowed>>
    /\ UNCHANGED <<rate_vars, tracker_vars>>

\* summary=None of Alert(...); a summary s is <<s>>
NoSummary == <<>>

\* Alert(message, summary=..., severity=..., html=...) after __init__:
\* message and summary are strings as sequences of characters, no rate
\* limit, nothing sent yet.
Alert(message, summary, severity, html) ==
    [message |-> message, summary |-> summary, severity |-> severity,
     html |-> html, rate_limit |-> NoRateLimit, last_sent |-> EmptyDict]

\* Alert.send_to_stackdriver(metric_name, ignore_errors=ie) on self
\* (stackdriver.py:247-260): the gate, the datapoint, then the log record of
\* test mode or send_datapoints_to_stackdriver.
SendToStackdriver(self, metric_name, ie, f, build_ok) ==
    /\ ~Busy
    /\ LET g == _passed_rate_limit(self.rate_limit, self.last_sent,
                                   "stackdriver", now)
           name == _get_custom_metric_name(metric_name)
           c == [method |-> "send_to_stackdriver", test_mode |-> TEST_MODE,
                 metric_name |-> metric_name, arg_ignore_errors |-> ie,
                 passed |-> g.passed, ignore_errors |-> ArgOr(ie, TRUE),
                 metric_type |-> IF g.passed THEN name.value ELSE <<>>,
                 returns |-> "self"]
       IN /\ call' = c
          /\ IF ~g.passed
             THEN /\ net' = <<>> /\ logs' = <<>>
                  /\ result' = "returned" /\ raised' = NoExc
                  /\ RetryReset
                  /\ UNCHANGED GOOGLE_API_CLIENT
             ELSE IF name.raises
             THEN /\ net' = <<>> /\ logs' = <<>>
                  /\ result' = "raised" /\ raised' = Exc("ValueError")
                  /\ RetryReset
                  /\ UNCHANGED GOOGLE_API_CLIENT
             ELSE IF TEST_MODE
             THEN /\ net' = <<>>
                  /\ logs' = <<Log("INFO", "alertlib: would send to stackdriver")>>
                  /\ result' = "returned" /\ raised' = NoExc
                  /\ RetryReset
                  /\ UNCHANGED GOOGLE_API_CLIENT
             ELSE DatapointsEnter(f, build_ok)
    /\ UNCHANGED <<TEST_MODE, secrets, stackdriver_not_allowed>>
    /\ UNCHANGED <<rate_vars, tracker_vars>>

\* send_datapoints_to_stackdriver after _call_stackdriver_with_retries: its
\* except clause, and the return to its caller (through send_to_stackdriver,
\* which returns self).
DatapointsDone ==
    /\ Busy
    /\ call.method \in {"send_datapoints_to_stackdriver", "send_to_stackdriver"}
    /\ rpc \in {"returned", "raised"}
    /\ IF rpc = "returned"
       THEN /\ result' = "returned"
            /\ raised' = NoExc
            /\ UNCHANGED logs
       ELSE LET h == datapoints_except(exc, call.ignore_errors)
            IN /\ logs' = Append(logs, h.log)
               /\ result' = IF h.reraise THEN "raised" ELSE "returned"
               /\ raised' = IF h.reraise THEN exc ELSE NoExc
    /\ UNCHANGED <<call, net>>
    /\ UNCHANGED <<env_vars, retry_vars, rate_vars, tracker_vars>>

IgnoreErrorsArgs == {Omitted, <<TRUE>>, <<FALSE>>}

StackdriverAlert == Alert(<<"m">>, NoSummary, 20, FALSE)

\* The same, and an Alert(..., rate_limit=1) that has sent to stackdriver
\* this moment
StackdriverAlerts ==
    {StackdriverAlert,
     [StackdriverAlert EXCEPT !.rate_limit = <<1>>,
                              !.last_sent = DictSet(EmptyDict, "stackdriver", now)]}

InitRetry ==
    /\ RateIdle
    /\ TEST_MODE = FALSE
    /\ secrets \in {AllSecrets, {}}
    /\ stackdriver_not_allowed = FALSE
    /\ GOOGLE_API_CLIENT = FALSE
    /\ CallIdle
    /\ RetryIdle
    /\ TrackerIdle
    /\ ScriptIdle

NextRetry ==
    \/ \E f \in Fns, n \in 0..MaxRetries, w \in {0, DefaultWaitTime} :
           CallWithRetries(f, n, w) /\ UNCHANGED script_vars
    \/ \E f \in ConstantFns : CallWithRetries(f, DefaultNumRetries, 0) /\ UNCHANGED script_vars
    \/ \E o \in FnOutcomes : FnCall(o) /\ UNCHANGED script_vars
    \/ Sleep /\ UNCHANGED script_vars
    \/ CallWithRetriesDone /\ UNCHANGED script_vars
    \/ \E f \in ConstantFns, ie \in IgnoreErrorsArgs, build_ok \in BOOLEAN :
           SendDatapoints(f, ie, build_ok) /\ UNCHANGED script_vars
    \/ \E m \in MetricNames, f \in ConstantFns, ie \in IgnoreErrorsArgs,
          build_ok \in BOOLEAN :
           SendToStackdriver(StackdriverAlert, m, ie, f, build_ok) /\ UNCHANGED script_vars
    \/ DatapointsDone /\ UNCHANGED script_vars

SpecRetry == InitRetry /\ [][NextRetry]_vars

(***************************************************************************)
(* base.py: severities, the summary, what a send_to_X call leaves behind.  *)
(***************************************************************************)
\* The levels of the logging module
DEBUG == 10
INFO == 20
WARNING == 30
ERROR == 40
CRITICAL == 50

\* A severity that is no level of the logging module
CUSTOM_SEVERITY == WARNING + 5

\* logging.getLevelName, for the records of logging.log(self.severity, ...)
LevelName(n) ==
    CASE n = DEBUG -> "DEBUG"
      [] n = INFO -> "INFO"
      [] n = WARNING -> "WARNING"
      [] n = ERROR -> "ERROR"
      [] n = CRITICAL -> "CRITICAL"
      [] OTHER -> "Level"

\* Python truth of an optional string: not None and not empty
TruthyStr(s) == s # NoSummary /\ s[1] # <<>>

\* s[:n]
Prefix(s, n) == SubSeq(s, 1, IF Len(s) < n THEN Len(s) ELSE n)

\* base.py:152, the summary is cut from the first 60 characters
MaxSummaryLen == 60

\* base.py:157-163
log_priority_to_prefix ==
    (DEBUG :> "(debug info) ") @@ (INFO :> "") @@ (WARNING :> "WARNING: ")
        @@ (ERROR :> "ERROR: ") @@ (CRITICAL :> "**CRITICAL ERROR**: ")

\* _get_summary that puts the severity in front of a summary the caller gave
_get_summary_labels_given(self) ==
    LET prefix == DictGet(log_priority_to_prefix, self.severity, "")
        label == IF prefix = "" THEN <<>> ELSE <<prefix>>
    IN IF self.summary # NoSummary THEN label \o self.summary[1]
       ELSE IF self.message = <<>> THEN <<>>
       ELSE IF self.html THEN <<>>
       ELSE LET nl == {k \in 1..Len(self.message) : self.message[k] = "\n"}
                line == IF nl = {} THEN self.message
                        ELSE SubSeq(self.message, 1, SetMin(nl) - 1)
                cut == Prefix(line, MaxSummaryLen)
                dots == {k \in 1..Len(cut) : cut[k] = "."}
                summary == IF dots # {} THEN SubSeq(cut, 1, SetMin(dots) - 1)
                           ELSE cut
            IN label \o summary

\* BaseMixin._get_summary
_get_summary(self) ==
    IF self.summary # NoSummary THEN self.summary[1]
    ELSE IF self.message = <<>> THEN <<>>
    ELSE IF self.html THEN <<>>
    ELSE LET nl == {k \in 1..Len(self.message) : self.message[k] = "\n"}
             line == IF nl = {} THEN self.message
                     ELSE SubSeq(self.message, 1, SetMin(nl) - 1)
             cut == Prefix(line, MaxSummaryLen)
             dots == {k \in 1..Len(cut) : cut[k] = "."}
             summary == IF dots # {} THEN SubSeq(cut, 1, SetMin(dots) - 1)
                        ELSE cut
             prefix == DictGet(log_priority_to_prefix, self.severity, "")
         IN IF prefix = "" THEN summary ELSE <<prefix>> \o summary

\* BaseMixin._mapped_severity (the map has an entry for INFO)
_mapped_severity(self, severity_map) ==
    DictGet(severity_map, self.severity, severity_map[INFO])

\* The Alerts the send_to_X methods are called on
SendAlerts ==
    LET message == <<"h", "i", ".", "\n", "8", ")">>
    IN {Alert(message, NoSummary, INFO, FALSE),
        Alert(message, <<<<"s", "u", "m">>>>, ERROR, FALSE),
        Alert(<<"<b>", "h", "i">>, NoSummary, CRITICAL, TRUE),
        Alert(message, NoSummary, CUSTOM_SEVERITY, FALSE),
        Alert(message, NoSummary, DEBUG, FALSE)}

\* What the body of a send_to_X method did: its log records, its calls out
\* of the process, and how it ended
Returns(logs_, net_) ==
    [logs |-> logs_, net |-> net_, result |-> "returned", raised |-> NoExc]

Raises(logs_, net_, e) ==
    [logs |-> logs_, net |-> net_, result |-> "raised", raised |-> e]

\* One effect after another
Then(e1, e2) == Returns(e1.logs \o e2.logs, e1.net \o e2.net)

\* A body that did nothing, as when the gate stopped the send
Nothing == Returns(<<>>, <<>>)

\* The ways a request to a service can end for the simple backends
PostOutcomes == {"ok", "failed"}

(***************************************************************************)
(* hipchat.py                                                              *)
(***************************************************************************)
\* hipchat.py:12-18
_LOG_PRIORITY_TO_HIPCHAT_COLOR ==
    (DEBUG :> "gray") @@ (INFO :> "purple") @@ (WARNING :> "yellow")
        @@ (ERROR :> "red") @@ (CRITICAL :> "red")

\* hipchat.py:104, message[:9000]
MaxChatLen == 9000

\* _nix_bad_emoticons: text.replace('8)', '8' + zero-width space + ')')
RECURSIVE _nix_bad_emoticons(_)
_nix_bad_emoticons(text) ==
    IF Len(text) < 2 THEN text
    ELSE IF text[1] = "8" /\ text[2] = ")"
    THEN <<"8", "u200b", ")">> \o _nix_bad_emoticons(SubSeq(text, 3, Len(text)))
    ELSE <<text[1]>> \o _nix_bad_emoticons(Tail(text))

\* _post_to_hipchat(post_dict), o is how the request ends
_post_to_hipchat(post_dict, o) ==
    IF ~secret("hipchat_alertlib_token")
    THEN Returns(<<Log("WARNING", "Not sending this to hipchat (no token found)")>>, <<>>)
    ELSE Then(Returns(<<>>, <<Req("hipchat", "rooms/message", <<post_dict>>)>>),
              IF o = "ok" THEN Nothing
              ELSE Returns(<<Log("ERROR", "Failed sending to hipchat")>>, <<>>))

\* send_to_hipchat that posts the body before the summary
send_to_hipchat_body_first(self, room_name, color_arg, notify_arg, o1, o2) ==
    LET color == IF color_arg = Omitted
                 THEN _mapped_severity(self, _LOG_PRIORITY_TO_HIPCHAT_COLOR)
                 ELSE color_arg[1]
        notify == IF notify_arg = Omitted THEN self.severity = CRITICAL
                  ELSE notify_arg[1]
        message == Prefix(self.message, MaxChatLen)
        would == Returns(<<Log("INFO", "alertlib: would send to hipchat room")>>, <<>>)
        first == IF ~TruthyStr(self.summary) THEN Nothing
                 ELSE IF TEST_MODE THEN would
                 ELSE Then(Returns(<<>>, <<Req("time", "sleep", <<1>>)>>),
                           _post_to_hipchat(
                               [room_id |-> room_name,
                                message |-> _nix_bad_emoticons(self.summary[1]),
                                message_format |-> "text", notify |-> 0,
                                color |-> color], o1))
        second == IF TEST_MODE THEN would
                  ELSE _post_to_hipchat(
                           [room_id |-> room_name,
                            message |-> IF self.html THEN message
                                        ELSE _nix_bad_emoticons(message),
                            message_format |-> IF self.html THEN "html" ELSE "text",
                            notify |-> IF notify THEN 1 ELSE 0,
                            color |-> color], o2)
        both == Then(second, first)
    IN Returns(both.logs, both.net)

\* The body of send_to_hipchat(room_name, color, notify) after the gate
send_to_hipchat(self, room_name, color_arg, notify_arg, o1, o2) ==
    LET color == IF color_arg = Omitted
                 THEN _mapped_severity(self, _LOG_PRIORITY_TO_HIPCHAT_COLOR)
                 ELSE color_arg[1]
        notify == IF notify_arg = Omitted THEN self.severity = CRITICAL
                  ELSE notify_arg[1]
        message == Prefix(self.message, MaxChatLen)
        would == Returns(<<Log("INFO", "alertlib: would send to hipchat room")>>, <<>>)
        first == IF ~TruthyStr(self.summary) THEN Nothing
                 ELSE IF TEST_MODE THEN would
                 ELSE Then(_post_to_hipchat(
                               [room_id |-> room_name,
                                message |-> _nix_bad_emoticons(self.summary[1]),
                                message_format |-> "text", notify |-> 0,
                                color |-> color], o1),
                           Returns(<<>>, <<Req("time", "sleep", <<1>>)>>))
        second == IF TEST_MODE THEN would
                  ELSE _post_to_hipchat(
                           [room_id |-> room_name,
                            message |-> IF self.html THEN message
                                        ELSE _nix_bad_emoticons(message),
                            message_format |-> IF self.html THEN "html" ELSE "text",
                            notify |-> IF notify THEN 1 ELSE 0,
                            color |-> color], o2)
        both == Then(first, second)
    IN Returns(both.logs, both.net)

(***************************************************************************)
(* slack.py                                                                *)
(***************************************************************************)
\* slack.py:16-22
_LOG_PRIORITY_TO_SLACK_COLOR ==
    (DEBUG :> "") @@ (INFO :> "") @@ (WARNING :> "warning")
        @@ (ERROR :> "danger") @@ (CRITICAL :> "danger")

\* _slack_payload with intro='' and no attachments, icons, sender or thread
_slack_payload(self, channel, simple_message) ==
    LET message == Prefix(self.message, MaxChatLen)
    IN IF simple_message
       THEN [channel |-> channel, text |-> message, attachments |-> <<>>]
       ELSE [channel |-> channel, text |-> <<"\n">>,
             attachments |->
                 <<[text |-> message,
                    color |-> _mapped_severity(self, _LOG_PRIORITY_TO_SLACK_COLOR),
                    fallback |-> IF TruthyStr(self.summary)
                                 THEN self.summary[1] \o <<"\n">> \o message
                                 ELSE message,
                    pretext |-> IF TruthyStr(self.summary) THEN self.summary
                                ELSE NoSummary]>>]

\* _post_to_slack(payload), o is how the request ends
_post_to_slack(payload, o) ==
    IF ~(secret("slack_alertlib_webhook_url") \/ secret("slack_alertlib_api_token"))
    THEN Returns(<<Log("WARNING", "Not sending to slack (no webhook url or token found)")>>, <<>>)
    ELSE Then(Returns(<<>>, <<Req("slack", "post", <<payload>>)>>),
              IF o = "ok" THEN Nothing
              ELSE Returns(<<Log("ERROR", "Failed sending to slack")>>, <<>>))

\* The body of send_to_slack(channel, simple_message) after the gate
send_to_slack(self, channel, simple_message, o) ==
    LET html == IF self.html
                THEN Returns(<<Log("WARNING", "Unsupported HTML msg being sent to Slack!")>>, <<>>)
                ELSE Nothing
        payload == _slack_payload(self, channel, simple_message)
        send == IF TEST_MODE
                THEN Returns(<<Log("INFO", "alertlib: would send to slack channel")>>, <<>>)
                ELSE _post_to_slack(payload, o)
        both == Then(html, send)
    IN Returns(both.logs, both.net)

(***************************************************************************)
(* email.py and pagerduty.py                                               *)
(***************************************************************************)
\* An address or user name is a sequence of parts: a name, "@", a host
HasAt(s) == \E k \in 1..Len(s) : s[k] = "@"

\* _normalize that takes every address as it comes
_normalize_any_host(lst) ==
    LET KA == "khanacademy.org"
    IN
    IF lst = Omitted THEN [raises |-> FALSE, value |-> Omitted]
    ELSE [raises |-> FALSE,
          value |-> <<[k \in 1..Len(lst[1]) |->
                          IF HasAt(lst[1][k]) THEN lst[1][k]
                          ELSE lst[1][k] \o <<"@", KA>>]>>]

\* _normalize(lst) of send_to_email on a list (or None): the list with
\* '@khanacademy.org' added where it is missing, or ValueError
_normalize(lst) ==
    LET KA == "khanacademy.org"
        EndsWithKA(s) == Len(s) >= 2 /\ s[Len(s) - 1] = "@" /\ s[Len(s)] = KA
    IN
    IF lst = Omitted THEN [raises |-> FALSE, value |-> Omitted]
    ELSE IF \E k \in 1..Len(lst[1]) : ~EndsWithKA(lst[1][k]) /\ HasAt(lst[1][k])
    THEN [raises |-> TRUE, value |-> Omitted]
    ELSE [raises |-> FALSE,
          value |-> <<[k \in 1..Len(lst[1]) |->
                          IF EndsWithKA(lst[1][k]) THEN lst[1][k]
                          ELSE lst[1][k] \o <<"@", KA>>]>>]

\* What the mail transports of this process do. sendgrid: "NameError" (not
\* installed), "sent" or "error"; google_mail: the same; smtplib:
\* "NameError", "SMTPException", "sent" or "error".
MailTransports ==
    {[sendgrid |-> "NameError", gae |-> "NameError", sendmail |-> "sent"],
     [sendgrid |-> "NameError", gae |-> "NameError", sendmail |-> "SMTPException"],
     [sendgrid |-> "NameError", gae |-> "NameError", sendmail |-> "error"],
     [sendgrid |-> "NameError", gae |-> "NameError", sendmail |-> "NameError"],
     [sendgrid |-> "NameError", gae |-> "sent", sendmail |-> "sent"],
     [sendgrid |-> "NameError", gae |-> "error", sendmail |-> "sent"],
     [sendgrid |-> "sent", gae |-> "sent", sendmail |-> "sent"],
     [sendgrid |-> "error", gae |-> "sent", sendmail |-> "sent"]}

\* _send_to_sendgrid: the assert on the secrets, the client, the send
_send_to_sendgrid(mail, t) ==
    IF ~((secret("sendgrid_low_priority_username") \/ secret("sendgrid_username"))
         /\ (secret("sendgrid_low_priority_password") \/ secret("sendgrid_password")))
    THEN Raises(<<>>, <<>>, Exc("AssertionError"))
    ELSE IF t.sendgrid = "NameError" THEN Raises(<<>>, <<>>, Exc("NameError"))
    ELSE IF t.sendgrid = "sent"
    THEN Returns(<<>>, <<Req("sendgrid", "send", <<mail>>)>>)
    ELSE Raises(<<>>, <<Req("sendgrid", "send", <<mail>>)>>, Exc("SendGridError"))

_send_to_gae_email(mail, t) ==
    IF t.gae = "NameError" THEN Raises(<<>>, <<>>, Exc("NameError"))
    ELSE IF t.gae = "sent"
    THEN Returns(<<>>, <<Req("google_mail", "send_mail", <<mail>>)>>)
    ELSE Raises(<<>>, <<Req("google_mail", "send_mail", <<mail>>)>>, Exc("Error"))

_send_to_sendmail(mail, t) ==
    IF t.sendmail = "NameError" THEN Raises(<<>>, <<>>, Exc("NameError"))
    ELSE IF t.sendmail = "sent"
    THEN Returns(<<>>, <<Req("smtp", "sendmail", <<mail>>)>>)
    ELSE IF t.sendmail = "SMTPException"
    THEN Raises(<<>>, <<Req("smtp", "sendmail", <<mail>>)>>, Exc("SMTPException"))
    ELSE Raises(<<>>, <<Req("smtp", "sendmail", <<mail>>)>>, Exc("socket.error"))

\* _send_to_email: sendgrid, then appengine, then sendmail; NameError and
\* AssertionError (for sendmail NameError and SMTPException) pass on to the
\* next transport, and after the last one an error is logged
_send_to_email(self, email_addresses, cc, bcc, t) ==
    LET mail == [subject |-> _get_summary(self), to |-> email_addresses,
                 cc |-> cc, bcc |-> bcc, html |-> self.html]
        sg == _send_to_sendgrid(mail, t)
        gae == _send_to_gae_email(mail, t)
        sm == _send_to_sendmail(mail, t)
    IN IF sg.raised.type \notin {"NameError", "AssertionError"} THEN sg
       ELSE IF gae.raised.type \notin {"NameError", "AssertionError"}
       THEN [gae EXCEPT !.net = sg.net \o @]
       ELSE IF sm.raised.type \notin {"NameError", "SMTPException"}
       THEN [sm EXCEPT !.net = sg.net \o gae.net \o @]
       ELSE Returns(<<Log("ERROR", "Failed sending email")>>,
                    sg.net \o gae.net \o sm.net)

\* The try statement around _send_to_email in send_to_email and
\* send_to_pagerduty: an exception is logged
try_send_to_email(self, email_addresses, cc, bcc, t) ==
    LET e == _send_to_email(self, email_addresses, cc, bcc, t)
    IN IF e.result = "raised"
       THEN Returns(e.logs \o <<Log("ERROR", "Failed sending")>>, e.net)
       ELSE e

\* The body of send_to_email(email_usernames, cc, bcc) after the gate
send_to_email(self, email_usernames, cc_arg, bcc_arg, t) ==
    LET email_addresses == _normalize(<<email_usernames>>)
        cc == _normalize(cc_arg)
        bcc == _normalize(bcc_arg)
    IN IF email_addresses.raises \/ cc.raises \/ bcc.raises
       THEN Raises(<<>>, <<>>, Exc("ValueError"))
       ELSE IF TEST_MODE
       THEN Returns(<<Log("INFO", "alertlib: would send email")>>, <<>>)
       ELSE try_send_to_email(self, email_addresses.value[1], cc.value,
                              bcc.value, t)

\* _service_name_to_email(lst) of send_to_pagerduty on a list: the
\* characters outside [A-Za-z0-9._-] go (pagerduty.py:13), then lower()
_service_name_to_email(lst) ==
    LET PagerDutyLegal == {"o", "n", "C", "-"}
        Lower(c) == IF c = "C" THEN "c" ELSE c
    IN
    IF \E k \in 1..Len(lst) : HasAt(lst[k])
    THEN [raises |-> TRUE, value |-> <<>>]
    ELSE [raises |-> FALSE,
          value |-> [k \in 1..Len(lst) |->
                        LET kept == SelectSeq(lst[k], LAMBDA c : c \in PagerDutyLegal)
                        IN [j \in 1..Len(kept) |-> Lower(kept[j])]
                               \o <<"@", "khan-academy.pagerduty.com">>]]

\* The body of send_to_pagerduty(pagerduty_servicenames) after the gate
send_to_pagerduty(self, pagerduty_servicenames, t) ==
    LET email_addresses == _service_name_to_email(pagerduty_servicenames)
    IN IF email_addresses.raises THEN Raises(<<>>, <<>>, Exc("ValueError"))
       ELSE IF TEST_MODE
       THEN Returns(<<Log("INFO", "alertlib: would send pagerduty email")>>, <<>>)
       ELSE try_send_to_email(self, email_addresses.value, Omitted, Omitted, t)

(***************************************************************************)
(* logs.py                                                                 *)
(***************************************************************************)
\* logs.py:13-19, with the LOG_ priorities of syslog
_LOG_TO_SYSLOG ==
    (DEBUG :> 7) @@ (INFO :> 6) @@ (WARNING :> 4) @@ (ERROR :> 3)
        @@ (CRITICAL :> 2)

\* The body of send_to_logs() after the gate; have_syslog: the import of
\* syslog worked. Without it _LOG_TO_SYSLOG is {} and the lookup raises
\* KeyError, which is passed over.
send_to_logs(self, have_syslog) ==
    LET record == <<Log(LevelName(self.severity), "self.message")>>
    IN IF TEST_MODE \/ ~have_syslog THEN Returns(record, <<>>)
       ELSE Returns(record,
                    <<Req("syslog", "syslog",
                          <<_mapped_severity(self, _LOG_TO_SYSLOG)>>)>>)

(***************************************************************************)
(* graphite.py                                                             *)
(***************************************************************************)
\* What the network does to one send_to_graphite: stale is "more than 600 s
\* since the socket was made", then how connect and send end
GraphiteNets == [stale : BOOLEAN, connect : PostOutcomes, send : PostOutcomes]

\* _graphite_socket(host).send(...) inside the try statement of
\* send_to_graphite: the socket state afterwards and the effect. A socket
\* whose connect failed stays in _GRAPHITE_SOCKET; if no connect ever
\* worked, _LAST_GRAPHITE_TIME is None and the next subtraction raises
\* TypeError.
_graphite_socket_send(sock, n) ==
    LET failed == Returns(<<Log("ERROR", "Failed sending to graphite")>>, <<>>)
        send == Then(Returns(<<>>, <<Req("graphite", "send", <<>>)>>),
                     IF n.send = "ok" THEN Nothing ELSE failed)
    IN IF sock = "untimed" THEN [sock |-> sock, eff |-> failed]
       ELSE IF sock = "connected" /\ ~n.stale
       THEN [sock |-> sock, eff |-> send]
       ELSE IF n.connect = "ok"
       THEN [sock |-> "connected",
             eff |-> Then(Returns(<<>>, <<Req("graphite", "connect", <<>>)>>), send)]
       ELSE [sock |-> IF sock = "None" THEN "untimed" ELSE "unconnected",
             eff |-> Then(Returns(<<>>, <<Req("graphite", "connect", <<>>)>>), failed)]

\* The body of send_to_graphite(statistic, value) after the gate; of value,
\* int(value) == value holds ("1", "12.0"), fails ("0.5"), or int() raises
\* ("inf")
send_to_graphite(self, statistic, value, n) ==
    IF value = "inf"
    THEN [sock |-> _GRAPHITE_SOCKET, eff |-> Raises(<<>>, <<>>, Exc("OverflowError"))]
    ELSE IF TEST_MODE
    THEN [sock |-> _GRAPHITE_SOCKET,
          eff |-> Returns(<<Log("INFO", "alertlib: would send to graphite")>>, <<>>)]
    ELSE IF ~secret("hostedgraphite_api_key")
    THEN [sock |-> _GRAPHITE_SOCKET,
          eff |-> Returns(<<Log("WARNING", "Not sending to graphite; no API key found")>>,
                          <<>>)]
    ELSE LET s == _graphite_socket_send(_GRAPHITE_SOCKET, n)
         IN [sock |-> s.sock, eff |-> Returns(s.eff.logs, s.eff.net)]

(***************************************************************************)
(* alerta.py                                                               *)
(***************************************************************************)
\* alerta.py:50-71, the resources
MAP_RESOURCE_TO_ENV_SERVICE_AND_GROUP ==
    ("webapp" :> [env |-> "Production", service |-> <<"Khanacademy.org">>,
                  group |-> "web"])
    @@ ("mobile" :> [env |-> "Production", service |-> <<"Khanacademy.org">>,
                     group |-> "mobile"])
    @@ ("jenkins" :> [env |-> "Development", service |-> <<"Deployment">>,
                      group |-> "tools"])
    @@ ("toby" :> [env |-> "Production", service |-> <<"Internal Webserver">>,
                   group |-> "tools"])
    @@ ("test" :> [env |-> "Development", service |-> <<"Test">>,
                   group |-> "test"])

NOTSET == 0

\* alerta.py:73-80
_SEVERITY_TO_ALERTA_FORMAT ==
    (CRITICAL :> "critical") @@ (ERROR :> "major") @@ (WARNING :> "warning")
        @@ (INFO :> "informational") @@ (DEBUG :> "debug") @@ (NOTSET :> "unknown")

\* _post_to_alerta(payload_json), o is how the request ends
_post_to_alerta(payload, o) ==
    IF ~secret("alerta_api_key")
    THEN Returns(<<Log("WARNING", "Not sending to Alerta (no API key found)")>>, <<>>)
    ELSE Then(Returns(<<>>, <<Req("alerta", "alert", <<payload>>)>>),
              IF o = "ok" THEN Nothing
              ELSE Returns(<<Log("ERROR", "Failed sending to Alerta")>>, <<>>))

\* The body of send_to_alerta(initiative, resource, event) after the gate;
\* resource and event are optional
send_to_alerta(self, initiative, resource, event, o) ==
    IF resource = Omitted
    THEN Returns(<<Log("ERROR", "Resource must be provided. Failed to send to aggregator.")>>,
                 <<>>)
    ELSE IF event = Omitted
    THEN Returns(<<Log("ERROR", "Event name must be provided. Failed to send to aggregator.")>>,
                 <<>>)
    ELSE IF resource[1] \notin DOMAIN MAP_RESOURCE_TO_ENV_SERVICE_AND_GROUP
    THEN Raises(<<>>, <<>>, Exc("KeyError"))
    ELSE IF self.severity \notin DOMAIN _SEVERITY_TO_ALERTA_FORMAT
    THEN Raises(<<>>, <<>>, Exc("KeyError"))
    ELSE LET c == MAP_RESOURCE_TO_ENV_SERVICE_AND_GROUP[resource[1]]
             payload == [resource |-> resource[1], event |-> event[1],
                         environment |-> c.env,
                         severity |-> _SEVERITY_TO_ALERTA_FORMAT[self.severity],
                         service |-> c.service, group |-> c.group,
                         text |-> _get_summary(self),
                         attributes |-> [initiative |-> initiative]]
             send == IF TEST_MODE
                     THEN Returns(<<Log("INFO", "alertlib: would send to aggregator")>>, <<>>)
                     ELSE _post_to_alerta(payload, o)
         IN Returns(send.logs, send.net)

(***************************************************************************)
(* github.py                                                               *)
(***************************************************************************)
\* _make_github_api_call(endpoint, payload_json), o is how the request ends
_make_github_api_call(sha, payload, o) ==
    IF ~secret("github_repo_status_deployment_pat")
    THEN Returns(<<Log("ERROR", "Not sending to Github (no API key found)")>>, <<>>)
    ELSE Then(Returns(<<>>, <<Req("github", "statuses", <<sha, payload>>)>>),
              IF o = "ok" THEN Nothing
              ELSE Returns(<<Log("ERROR", "Failed sending to Github")>>, <<>>))

\* The body of send_to_github_commit_status(sha, state) after the gate: the
\* severity is a logging level and never the string 'error' or 'critical'
send_to_github_commit_status(self, sha, state_arg, o) ==
    LET payload == [state |-> IF state_arg = Omitted THEN "pending"
                              ELSE state_arg[1]]
        send == IF TEST_MODE
                THEN Returns(<<Log("INFO", "alertlib: would send to github commit status")>>, <<>>)
                ELSE _make_github_api_call(sha, payload, o)
    IN Returns(send.logs, send.net)

(***************************************************************************)
(* asana.py. A send that makes requests runs from response to response:    *)
(* the record m holds where it waits (pc), its local variables (frame),    *)
(* what it has logged and called so far, the three caches (P, T, U), the   *)
(* kinds of name resolved so far (K), and how it ended.                    *)
(***************************************************************************)
\* The return value None of a request function; data d is <<d>>
NoData == <<>>

mlog(m, level, text) == [m EXCEPT !.logs = Append(@, Log(level, text))]

mlogs(m, records) == [m EXCEPT !.logs = @ \o records]

mdone(m) == [m EXCEPT !.pc = "idle", !.result = "returned"]

mraise(m, e) == [m EXCEPT !.pc = "idle", !.result = "raised", !.raised = e]

\* The send in progress, and a send that starts
Machine ==
    [pc |-> pc, frame |-> frame, logs |-> logs, net |-> net,
     P |-> _CACHED_ASANA_PROJECT_MAP, T |-> _CACHED_ASANA_TAG_MAP,
     U |-> _CACHED_ASANA_USER_MAP, K |-> asana_resolved,
     result |-> result, raised |-> raised]

NewMachine(f) ==
    [pc |-> "idle", frame |-> f, logs |-> <<>>, net |-> <<>>,
     P |-> _CACHED_ASANA_PROJECT_MAP, T |-> _CACHED_ASANA_TAG_MAP,
     U |-> _CACHED_ASANA_USER_MAP, K |-> asana_resolved,
     result |-> "running", raised |-> NoExc]

RECURSIVE Concat(_)
Concat(ss) == IF ss = <<>> THEN <<>> ELSE Head(ss) \o Concat(Tail(ss))

Range(s) == {s[k] : k \in 1..Len(s)}

\* asana.py:23-28
_LOG_PRIORITY_TO_ASANA_TAG ==
    (INFO :> "P4") @@ (WARNING :> "P3") @@ (ERROR :> "P2") @@ (CRITICAL :> "P1")

\* asana.py:21
KA_ASANA_WORKSPACE_ID == "1120786379245"

\* _call_asana_api up to urlopen: without a token it logs and returns None
\* at once (sent is FALSE), else the request goes out and the send waits at
\* label for the response
_call_asana_api(m, label, what, arg) ==
    IF ~secret("asana_api_token")
    THEN [sent |-> FALSE,
          m |-> mlog(m, "WARNING", "Not sending this to asana (no token found)")]
    ELSE [sent |-> TRUE,
          m |-> [m EXCEPT !.pc = label, !.net = Append(@, Req("asana", what, arg))]]

\* post_dict of asana.py:302-308, and the request of line 317
asana_create(m) ==
    LET f == m.frame
        post_dict == [followers |-> f.follower_ids, name |-> f.task_name,
                      notes |-> f.self.message, projects |-> f.project_ids,
                      tags |-> f.tag_ids, workspace |-> KA_ASANA_WORKSPACE_ID]
        c == _call_asana_api(m, "asana:create", "POST tasks", <<post_dict>>)
    IN IF c.sent THEN c.m ELSE mdone(c.m)

\* _check_task_already_exists that takes a failed check for a duplicate
asana_dup_result_fails_closed(m, res) ==
    IF res = NoData
    THEN mdone(mlog(m, "WARNING",
             "Failed testing current task for uniqueness. This task might be created as a duplicate."))
    ELSE IF \E k \in 1..Len(res[1]) :
                res[1][k].name = m.frame.task_name /\ ~res[1][k].completed
    THEN mdone(m)
    ELSE asana_create(m)

\* _check_task_already_exists from its request on, and asana.py:315
asana_dup_result(m, res) ==
    IF res = NoData
    THEN asana_create(mlog(m, "WARNING",
             "Failed testing current task for uniqueness. This task might be created as a duplicate."))
    ELSE IF \E k \in 1..Len(res[1]) :
                res[1][k].name = m.frame.task_name /\ ~res[1][k].completed
    THEN mdone(m)
    ELSE asana_create(m)

\* send_to_asana that creates the task without the duplicate check
_check_task_already_exists_skipped(m) == asana_create(m)

\* _check_task_already_exists up to its request: tags[-1] of an empty list
\* raises IndexError
_check_task_already_exists(m) ==
    IF m.frame.tag_ids = <<>> THEN mraise(m, Exc("IndexError"))
    ELSE LET c == _call_asana_api(m, "asana:dup", "GET tasks?tag",
                                  <<m.frame.tag_ids[Len(m.frame.tag_ids)]>>)
         IN IF c.sent THEN c.m ELSE asana_dup_result(c.m, NoData)

\* _get_asana_tag_ids with the cache built (asana.py:183-190), then
\* send_to_asana from line 302
asana_got_tags(m) ==
    LET names == m.frame.tags
        ids == Concat([k \in 1..Len(names) |-> DictGet(m.T, names[k], <<>>)])
        bad == SelectSeq(names, LAMBDA n : n \notin DOMAIN m.T)
        m1 == mlogs([m EXCEPT !.frame.tag_ids = ids],
                    [k \in 1..Len(bad) |-> Log("ERROR", "Invalid asana tag name")])
    IN IF TEST_MODE
       THEN mdone(mlog(m1, "INFO", "alertlib: would send to asana"))
       ELSE _check_task_already_exists(m1)

\* tag_item['name'] -> list of int(tag_item['id']), added to the cache
AddToListMap(map, items) ==
    [n \in (DOMAIN map) \cup {items[k].name : k \in 1..Len(items)} |->
        LET mine == SelectSeq(items, LAMBDA it : it.name = n)
        IN DictGet(map, n, <<>>) \o [k \in 1..Len(mine) |-> mine[k].id]]

\* _get_asana_tag_ids after its request (asana.py:171-181), and
\* asana.py:297-300
asana_tags_result(m, res) ==
    IF res = NoData
    THEN mdone(mlogs(m,
             <<Log("ERROR", "Failed to build Asana tags cache. Task will not be created"),
               Log("ERROR", "Failed to retrieve asana tag name to tag id mapping. Task will not be created.")>>))
    ELSE asana_got_tags([m EXCEPT !.T = AddToListMap(@, res[1])])

\* _get_asana_tag_ids that asks again when a name is not in its cache
_get_asana_tag_ids_refetch(m0) ==
    LET m == [m0 EXCEPT !.K = @ \cup {"tag"}]
    IN IF DOMAIN m.T = {} \/ Range(m.frame.tags) \ DOMAIN m.T # {}
       THEN LET c == _call_asana_api(m, "asana:tags", "GET tags", <<>>)
            IN IF c.sent THEN c.m ELSE asana_tags_result(c.m, NoData)
       ELSE asana_got_tags(m)

_get_asana_tag_ids(m0) ==
    LET m == [m0 EXCEPT !.K = @ \cup {"tag"}]
    IN IF DOMAIN m.T = {}
       THEN LET c == _call_asana_api(m, "asana:tags", "GET tags", <<>>)
            IN IF c.sent THEN c.m ELSE asana_tags_result(c.m, NoData)
       ELSE asana_got_tags(m)

\* _get_asana_user_ids with the cache built (asana.py:144-152)
asana_got_users(m) ==
    LET emails == m.frame.followers
        good == SelectSeq(emails, LAMBDA e : e \in DOMAIN m.U)
        bad == SelectSeq(emails, LAMBDA e : e \notin DOMAIN m.U)
    IN _get_asana_tag_ids(
           mlogs([m EXCEPT !.frame.follower_ids =
                               [k \in 1..Len(good) |-> m.U[good[k]]]],
                 [k \in 1..Len(bad) |-> Log("ERROR", "Invalid asana user email")]))

\* user_item['email'] -> int(user_item['id']), the last one wins
AddToUserMap(map, items) ==
    [e \in (DOMAIN map) \cup {items[k].email : k \in 1..Len(items)} |->
        LET mine == {k \in 1..Len(items) : items[k].email = e}
        IN IF mine = {} THEN map[e] ELSE items[SetMax(mine)].id]

\* _get_asana_user_ids after its request (asana.py:133-142)
asana_users_result(m, res) ==
    IF res = NoData
    THEN _get_asana_tag_ids(
             mlog([m EXCEPT !.frame.follower_ids = <<>>], "ERROR",
                  "Failed to build Asana user cache."))
    ELSE asana_got_users([m EXCEPT !.U = AddToUserMap(@, res[1])])

_get_asana_user_ids(m0) ==
    LET m == [m0 EXCEPT !.K = @ \cup {"user"}]
    IN IF DOMAIN m.U = {}
       THEN LET c == _call_asana_api(m, "asana:users", "GET users", <<>>)
            IN IF c.sent THEN c.m ELSE asana_users_result(c.m, NoData)
       ELSE asana_got_users(m)

\* send_to_asana that goes on without a project
asana_got_projects_goes_on(m, ids) ==
    IF ids = <<>>
    THEN _get_asana_user_ids(
             mlog(m, "ERROR", "Invalid asana project name; task not created."))
    ELSE _get_asana_user_ids([m EXCEPT !.frame.project_ids = ids])

\* send_to_asana, asana.py:290-294, on the ids of the project (None is <<>>)
asana_got_projects(m, ids) ==
    IF ids = <<>>
    THEN mdone(mlog(m, "ERROR", "Invalid asana project name; task not created."))
    ELSE _get_asana_user_ids([m EXCEPT !.frame.project_ids = ids])

\* _get_asana_project_ids after its request (asana.py:211-221)
asana_projects_result(m, res) ==
    IF res = NoData THEN asana_got_projects(m, <<>>)
    ELSE LET P2 == AddToListMap(m.P, res[1])
         IN asana_got_projects([m EXCEPT !.P = P2],
                               DictGet(P2, m.frame.project, <<>>))

_get_asana_project_ids(m0) ==
    LET m == [m0 EXCEPT !.K = @ \cup {"project"}]
    IN IF DOMAIN m.P # {}
       THEN asana_got_projects(m, DictGet(m.P, m.frame.project, <<>>))
       ELSE LET c == _call_asana_api(m, "asana:projects", "GET projects", <<>>)
            IN IF c.sent THEN c.m ELSE asana_projects_result(c.m, NoData)

\* The body of send_to_asana(project, tags, followers) after the gate, up to
\* its first request
send_to_asana(self, project, tags_arg, followers_arg) ==
    LET tags0 == ArgOr(tags_arg, <<>>)
        p_tags == {_LOG_PRIORITY_TO_ASANA_TAG[s] : s \in DOMAIN _LOG_PRIORITY_TO_ASANA_TAG}
        severity_tag == IF self.severity \in DOMAIN _LOG_PRIORITY_TO_ASANA_TAG
                           /\ Range(tags0) \cap p_tags = {}
                        THEN <<_LOG_PRIORITY_TO_ASANA_TAG[self.severity]>>
                        ELSE <<>>
        summary == _get_summary(self)
        name0 == IF summary = <<>> THEN <<"New Auto generated Asana task">>
                 ELSE summary
        task_name == IF name0[Len(name0)] = ":" THEN SubSeq(name0, 1, Len(name0) - 1)
                     ELSE name0
    IN _get_asana_project_ids(NewMachine(
           [method |-> "send_to_asana", self |-> self, project |-> project,
            tags |-> tags0 \o severity_tag \o <<"Auto generated">>,
            followers |-> ArgOr(followers_arg, <<>>),
            task_name |-> task_name, project_ids |-> <<>>,
            follower_ids |-> <<>>, tag_ids |-> <<>>, answers |-> <<>>]))

\* send_to_asana goes on with the response r to the request it waits for.
\* _call_asana_api from urlopen on: an exception or a status >= 300 is
\* logged and gives None, else the data of the response
asana_on_response(m, r) ==
    LET m0 == [m EXCEPT !.frame.answers = Append(@, r)]
        m1 == IF r.kind = "ok" THEN m0
              ELSE mlog(m0, "ERROR", "Failed sending to asana")
        res == IF r.kind = "ok" THEN r.data ELSE NoData
    IN CASE m.pc = "asana:projects" -> asana_projects_result(m1, res)
         [] m.pc = "asana:users" -> asana_users_result(m1, res)
         [] m.pc = "asana:tags" -> asana_tags_result(m1, res)
         [] m.pc = "asana:dup" -> asana_dup_result(m1, res)
         [] m.pc = "asana:create" -> mdone(m1)

\* A response: how the request ended and, for a good one, <<its data>>
Failure == [kind |-> "failed", data |-> NoData]

Ok(d) == [kind |-> "ok", data |-> <<d>>]

AsanaProjectList ==
    <<[name |-> "Engineering support", id |-> 11],
      [name |-> "Engineering support", id |-> 12],
      [name |-> "Other", id |-> 13]>>

AsanaTagList ==
    <<[name |-> "P4", id |-> 24], [name |-> "P3", id |-> 23],
      [name |-> "P2", id |-> 22], [name |-> "P1", id |-> 21],
      [name |-> "quick", id |-> 25], [name |-> "Auto generated", id |-> 26],
      [name |-> "Auto generated", id |-> 27]>>

\* GET /api/1.0/tasks?tag=<tag>&opt_fields=completed,name
AsanaTasksWithTag(holds, tag) ==
    LET hit == SelectSeq(holds, LAMBDA t : tag \in t.tags)
    IN [k \in 1..Len(hit) |-> [name |-> hit[k].name, completed |-> hit[k].completed]]

\* What the Asana API answers: the lists of the workspace, or a failure. The
\* answer to the duplicate check says what Asana holds (holds): no task, or
\* a task with the name of the new one that an earlier send with the same
\* tags made (open or completed), or one with that name and no tag (made by
\* hand), or one with that name and those tags in another project, or an
\* open task with another name. A failed answer (an exception, or a status
\* >= 300) can carry the same body as a good one.
AsanaResponses(m) ==
    CASE m.pc = "asana:projects" -> {Failure, Ok(<<>>), Ok(AsanaProjectList)}
      [] m.pc = "asana:users" -> {Failure, Ok(<<[email |-> "u1@example.com", id |-> 31]>>)}
      [] m.pc = "asana:tags" ->
             {Failure, Ok(SubSeq(AsanaTagList, 1, 5)), Ok(AsanaTagList)}
      [] m.pc = "asana:dup" ->
             LET mine == [name |-> m.frame.task_name, completed |-> FALSE,
                          tags |-> Range(m.frame.tag_ids),
                          projects |-> Range(m.frame.project_ids)]
                 holdings == {<<>>, <<mine>>, <<[mine EXCEPT !.completed = TRUE]>>,
                              <<[mine EXCEPT !.tags = {}]>>,
                              <<[mine EXCEPT !.projects = {13}]>>,
                              <<[mine EXCEPT !.name = <<"other">>]>>}
             IN {[kind |-> k, holds |-> h,
                  data |-> <<AsanaTasksWithTag(h, m.net[Len(m.net)].arg[1])>>] :
                     k \in {"ok", "failed"}, h \in holdings}
      [] m.pc = "asana:create" -> {Failure, Ok(<<>>)}
      [] OTHER -> {}

(***************************************************************************)
(* jira.py and bugtracker.py                                               *)
(***************************************************************************)
\* jira.py:17-24
_SEVERITY_TO_JIRA_PRIORITY ==
    (CRITICAL :> "2") @@ (ERROR :> "3") @@ (WARNING :> "4") @@ (INFO :> "5")
        @@ (DEBUG :> "5") @@ (NOTSET :> "5")

\* jira.py:27-47
_BUGTRACKER_TO_JIRA_PROJ ==
    ("Architecture" :> "ARCH") @@ ("Teacher Experience" :> "CLASS")
    @@ ("Content Library" :> "CL") @@ ("Content Platform" :> "CP")
    @@ ("Data Infrastructure" :> "DI") @@ ("Districts" :> "DIST")
    @@ ("Frontend Infrastructure" :> "FEI") @@ ("Tutor Platform" :> "TUT")
    @@ ("Infrastructure" :> "INFRA") @@ ("Learning Components" :> "LC")
    @@ ("Marketing & Philanthropy Product" :> "MPP") @@ ("MPP" :> "MPP")
    @@ ("Classroom" :> "CLASS") @@ ("Learning Platform" :> "LP")
    @@ ("Test Prep" :> "TP") @@ ("Guided Learning" :> "GL") @@ ("Test" :> "TEST")

\* jira.py:51-67
_PROJECT_TO_ISSUETYPE_ID ==
    ("ARCH" :> "10201") @@ ("CLASS" :> "10201") @@ ("CL" :> "10201")
    @@ ("CP" :> "10201") @@ ("DI" :> "10201") @@ ("DIST" :> "10201")
    @@ ("FEI" :> "10201") @@ ("GL" :> "10201") @@ ("INFRA" :> "10103")
    @@ ("LC" :> "10201") @@ ("MPP" :> "10201") @@ ("LP" :> "10201")
    @@ ("TP" :> "10201") @@ ("TEST" :> "10201") @@ ("TUTT" :> "10201")

\* _make_jira_api_call up to urlopen: without a key it logs and returns
\* None at once (sent is FALSE), else the request goes out and the send
\* waits at label for the response
_make_jira_api_call(m, label, what, arg) ==
    IF ~secret("jira_api_key")
    THEN [sent |-> FALSE,
          m |-> mlog(m, "ERROR", "Not sending to Jira (no API key found)")]
    ELSE [sent |-> TRUE,
          m |-> [m EXCEPT !.pc = label, !.net = Append(@, Req("jira", what, arg))]]

\* _add_watchers from watcher number m.frame.k on; without a key every
\* request that is left logs its error at once
_add_watchers(m) ==
    LET todo == Len(m.frame.jira_watchers) - m.frame.k + 1
    IN IF todo <= 0 THEN mdone(m)
       ELSE IF ~secret("jira_api_key")
       THEN mdone(mlogs(m, [j \in 1..todo |->
                Log("ERROR", "Not sending to Jira (no API key found)")]))
       ELSE _make_jira_api_call(m, "jira:watcher", "POST issue/watchers",
                                <<m.frame.issue_key,
                                  m.frame.jira_watchers[m.frame.k]>>).m

\* _send_to_jira, jira.py:259-263: r['key'] of None raises TypeError
jira_create_result(m, res) ==
    IF m.frame.jira_watchers = <<>> THEN mdone(m)
    ELSE IF res = NoData THEN mraise(m, Exc("TypeError"))
    ELSE _add_watchers([m EXCEPT !.frame.issue_key = res[1].key, !.frame.k = 1])

\* payload of jira.py:238-247, and the request of line 259
jira_create(m) ==
    LET f == m.frame
        payload == [project |-> f.project_key,
                    issuetype |-> _PROJECT_TO_ISSUETYPE_ID[f.project_key],
                    reporter |-> "jirabot",
                    priority |-> _SEVERITY_TO_JIRA_PRIORITY[f.self.severity],
                    labels |-> f.jira_labels, summary |-> f.issue_title,
                    description |-> f.self.message]
        c == _make_jira_api_call(m, "jira:create", "POST issue", <<payload>>)
    IN IF c.sent THEN c.m ELSE jira_create_result(c.m, NoData)

\* _check_issue_already_exists from its request on, and jira.py:257-258
jira_dup_result(m, res) ==
    IF res = NoData
    THEN jira_create(mlog(m, "ERROR",
             "Failed testing current issue for uniqueness. This issue might be created as a duplicate."))
    ELSE IF res[1].total > 0 THEN mdone(m)
    ELSE jira_create(m)

\* _check_issue_already_exists(project_key, self.summary): the jql string
\* is formatted with %s, which makes "None" of None
_check_issue_already_exists(m) ==
    LET summary == m.frame.self.summary
        text == IF summary = NoSummary THEN <<"None">> ELSE summary[1]
        c == _make_jira_api_call(m, "jira:dup", "GET search",
                                 <<m.frame.project_key, text>>)
    IN IF c.sent THEN c.m ELSE jira_dup_result(c.m, NoData)

\* _send_to_jira, jira.py:238-257
jira_got_usernames(m) ==
    IF TEST_MODE THEN mdone(mlog(m, "INFO", "alertlib: would send to jira"))
    ELSE _check_issue_already_exists(m)

\* _get_jira_usernames from watcher number m.frame.k on; without a key
\* every request that is left logs its error and finds no user
_get_jira_usernames(m) ==
    LET todo == Len(m.frame.watchers) - m.frame.k + 1
    IN IF todo <= 0 THEN jira_got_usernames(m)
       ELSE IF ~secret("jira_api_key")
       THEN jira_got_usernames(mlogs(m, Concat([j \in 1..todo |->
                <<Log("ERROR", "Not sending to Jira (no API key found)"),
                  Log("WARNING", "Unable to find a Jira user associated with the email address")>>])))
       ELSE _make_jira_api_call(m, "jira:user", "GET user/search",
                                <<m.frame.watchers[m.frame.k]>>).m

jira_user_result(m, res) ==
    IF res # NoData /\ res[1] # <<>>
    THEN _get_jira_usernames(
             [m EXCEPT !.frame.jira_watchers = Append(@, res[1][1].key),
                       !.frame.k = @ + 1])
    ELSE _get_jira_usernames(
             mlog([m EXCEPT !.frame.k = @ + 1], "WARNING",
                  "Unable to find a Jira user associated with the email address"))

\* _format_labels: '_'.join(label.split()), a label being words and " "
_format_labels(labels) ==
    LET RECURSIVE JoinWords(_)
        JoinWords(words) ==
            IF Len(words) <= 1 THEN words
            ELSE <<words[1], "_">> \o JoinWords(Tail(words))
    IN [k \in 1..Len(labels) |->
           JoinWords(SelectSeq(labels[k], LAMBDA w : w # " "))]

\* _send_to_jira after _get_jira_project_keys (jira.py:221-236)
jira_projects_result(m, res) ==
    LET all_projects == IF res = NoData THEN <<>> ELSE res[1]
        f == m.frame
        m1 == IF all_projects = <<>>
              THEN mlog(m, "ERROR", "Unable to verify Jira project key.")
              ELSE m
        summary == _get_summary(f.self)
        labels == f.labels \o <<<<"auto_generated">>>>
    IN IF all_projects # <<>> /\ f.project_key \notin Range(all_projects)
       THEN mdone(mlog(m, "ERROR", "This is no longer a valid Jira project key."))
       ELSE IF f.project_key \notin DOMAIN _PROJECT_TO_ISSUETYPE_ID
       THEN mraise(m1, Exc("KeyError"))
       ELSE IF f.self.severity \notin DOMAIN _SEVERITY_TO_JIRA_PRIORITY
       THEN mraise(m1, Exc("KeyError"))
       ELSE _get_jira_usernames(
                [m1 EXCEPT !.frame.issue_title =
                               IF summary = <<>>
                               THEN <<"New Auto generated Jira task">>
                               ELSE summary,
                           !.frame.labels = labels,
                           !.frame.jira_labels = _format_labels(labels),
                           !.frame.k = 1])

_get_jira_project_keys(m) ==
    LET c == _make_jira_api_call(m, "jira:projects", "GET project", <<>>)
    IN IF c.sent THEN c.m ELSE jira_projects_result(c.m, NoData)

\* The body of _send_to_jira(project_name, labels, watchers) after its gate,
\* up to its first request; method is the public method that was called
_send_to_jira(method, self, project_name, labels_arg, watchers_arg) ==
    LET known == project_name # Omitted
                     /\ project_name[1] \in DOMAIN _BUGTRACKER_TO_JIRA_PROJ
        m == NewMachine(
                 [method |-> method, self |-> self,
                  project_key |-> IF known
                                  THEN _BUGTRACKER_TO_JIRA_PROJ[project_name[1]]
                                  ELSE None,
                  labels |-> ArgOr(labels_arg, <<>>),
                  watchers |-> ArgOr(watchers_arg, <<>>),
                  jira_labels |-> <<>>, jira_watchers |-> <<>>,
                  issue_title |-> <<>>, issue_key |-> None, k |-> 1,
                  answers |-> <<>>])
    IN IF ~known
       THEN mdone(mlog(m, "ERROR",
                "Invalid Jira project name or no name provided. Failed to send to Jira."))
       ELSE _get_jira_project_keys(m)

\* jira_on_response that gives up the watchers after one of them failed
jira_on_response_stops(m, r) ==
    LET m0 == [m EXCEPT !.frame.answers = Append(@, r)]
        m1 == IF r.kind = "failed"
              THEN mlog(m0, "ERROR", "Failed sending to Jira") ELSE m0
        res == IF r.kind = "ok" THEN r.data ELSE NoData
    IN CASE m.pc = "jira:projects" -> jira_projects_result(m1, res)
         [] m.pc = "jira:user" -> jira_user_result(m1, res)
         [] m.pc = "jira:dup" -> jira_dup_result(m1, res)
         [] m.pc = "jira:create" -> jira_create_result(m1, res)
         [] m.pc = "jira:watcher" ->
                IF r.kind = "failed" THEN mdone(m1)
                ELSE _add_watchers([m1 EXCEPT !.frame.k = @ + 1])

\* _send_to_jira goes on with the response r to the request it waits for.
\* _make_jira_api_call from urlopen on: an exception (a status >= 300 is
\* one) is logged and gives None, 204 and 404 give None, else the data
jira_on_response(m, r) ==
    LET m0 == [m EXCEPT !.frame.answers = Append(@, r)]
        m1 == IF r.kind = "failed"
              THEN mlog(m0, "ERROR", "Failed sending to Jira") ELSE m0
        res == IF r.kind = "ok" THEN r.data ELSE NoData
    IN CASE m.pc = "jira:projects" -> jira_projects_result(m1, res)
         [] m.pc = "jira:user" -> jira_user_result(m1, res)
         [] m.pc = "jira:dup" -> jira_dup_result(m1, res)
         [] m.pc = "jira:create" -> jira_create_result(m1, res)
         [] m.pc = "jira:watcher" -> _add_watchers([m1 EXCEPT !.frame.k = @ + 1])

\* NoContent is a 204 or a 404
NoContent == [kind |-> "no content", data |-> NoData]

\* GET /search?jql=project="<project>" AND summary~"<text>" AND
\* status!="Done": ~ finds the summaries that contain the text
JiraSearch(holds, project, text) ==
    LET Contains(s) == \E k \in 1..(Len(s) - Len(text) + 1) :
                           SubSeq(s, k, k + Len(text) - 1) = text
        hit == SelectSeq(holds, LAMBDA t : t.project = project /\ ~t.done
                                           /\ Contains(t.summary))
    IN [total |-> Len(hit)]

\* What the Jira API answers. The answer to the duplicate check says what
\* Jira holds (holds): no issue, or an issue with the title of the new one in
\* its project (open or Done) or in another project, or an open issue with
\* another title, which the title of the new one is the beginning of or no
\* part of.
JiraResponses(m) ==
    CASE m.pc = "jira:projects" ->
             {Failure, Ok(<<"ARCH">>), Ok(<<"INFRA", "TUT">>)}
      [] m.pc = "jira:user" ->
             {Failure, Ok(<<>>), Ok(<<[key |-> "jira user"]>>)}
      [] m.pc = "jira:dup" ->
             LET q == m.net[Len(m.net)].arg
                 mine == [project |-> m.frame.project_key,
                          summary |-> m.frame.issue_title, done |-> FALSE]
                 holdings == {<<>>, <<mine>>, <<[mine EXCEPT !.done = TRUE]>>,
                              <<[mine EXCEPT !.project = "OTHER"]>>,
                              <<[mine EXCEPT !.summary = @ \o <<"!">>]>>,
                              <<[mine EXCEPT !.summary = <<"other">>]>>}
             IN {[kind |-> k, holds |-> h,
                  data |-> IF k = "ok" THEN <<JiraSearch(h, q[1], q[2])>>
                           ELSE NoData] :
                     k \in {"ok", "failed", "no content"}, h \in holdings}
      [] m.pc = "jira:create" -> {Failure, Ok([key |-> "INFRA-1"])}
      [] m.pc = "jira:watcher" -> {Failure, NoContent}
      [] OTHER -> {}

(***************************************************************************)
(* Spec: the send_to_X methods, called one after another on fresh Alerts,  *)
(* in and out of test mode.                                                *)
(***************************************************************************)
\* No public call is in progress and the outcome of the last one is gone
Idle == result = "none"

\* self.send_to_<service>(args) of a backend whose requests are part of the
\* call: the gate ("if not self._passed_rate_limit(service): return self"),
\* then the body, which did what the record body says and ends in "return
\* self"; returns is the value a call that returns gives its caller
Send(method, service, self, args, body) ==
    /\ Idle
    /\ LET g == _passed_rate_limit(self.rate_limit, self.last_sent, service, now)
           e == IF g.passed THEN body ELSE Nothing
       IN /\ call' = [method |-> method, test_mode |-> TEST_MODE,
                      passed |-> g.passed, self |-> self, args |-> args,
                      returns |-> "self"]
          /\ net' = e.net
          /\ logs' = e.logs
          /\ result' = e.result
          /\ raised' = e.raised
    /\ UNCHANGED <<env_vars, rate_vars, retry_vars>>
    /\ UNCHANGED <<pc, frame, _CACHED_ASANA_PROJECT_MAP, _CACHED_ASANA_TAG_MAP,
                   _CACHED_ASANA_USER_MAP, asana_resolved>>

SendToHipchat(self, room_name, color, notify, o1, o2) ==
    /\ Send("send_to_hipchat", "hipchat", self, <<room_name, color, notify>>,
            send_to_hipchat(self, room_name, color, notify, o1, o2))
    /\ UNCHANGED _GRAPHITE_SOCKET

SendToSlack(self, channel, simple_message, o) ==
    /\ Send("send_to_slack", "slack", self, <<channel, simple_message>>,
            send_to_slack(self, channel, simple_message, o))
    /\ UNCHANGED _GRAPHITE_SOCKET

SendToEmail(self, email_usernames, cc, bcc, t) ==
    /\ Send("send_to_email", "email", self, <<email_usernames, cc, bcc>>,
            send_to_email(self, email_usernames, cc, bcc, t))
    /\ UNCHANGED _GRAPHITE_SOCKET

SendToPagerduty(self, pagerduty_servicenames, t) ==
    /\ Send("send_to_pagerduty", "pagerduty", self, <<pagerduty_servicenames>>,
            send_to_pagerduty(self, pagerduty_servicenames, t))
    /\ UNCHANGED _GRAPHITE_SOCKET

SendToLogs(self, have_syslog) ==
    /\ Send("send_to_logs", "logs", self, <<>>, send_to_logs(self, have_syslog))
    /\ UNCHANGED _GRAPHITE_SOCKET

SendToGraphite(self, statistic, value, n) ==
    LET s == send_to_graphite(self, statistic, value, n)
    IN /\ Send("send_to_graphite", "graphite", self, <<statistic, value>>, s.eff)
       /\ _GRAPHITE_SOCKET' =
              IF _passed_rate_limit(self.rate_limit, self.last_sent,
                                    "graphite", now).passed
              THEN s.sock ELSE _GRAPHITE_SOCKET

SendToAlerta(self, initiative, resource, event, o) ==
    /\ Send("send_to_alerta", "aggregator", self, <<initiative, resource, event>>,
            send_to_alerta(self, initiative, resource, event, o))
    /\ UNCHANGED _GRAPHITE_SOCKET

SendToGithubCommitStatus(self, sha, state, o) ==
    /\ Send("send_to_github_commit_status", "github_commit_status", self,
            <<sha, state>>, send_to_github_commit_status(self, sha, state, o))
    /\ UNCHANGED _GRAPHITE_SOCKET

\* The send goes on as the record m says: to its next request, or to its end
Install(m) ==
    /\ pc' = m.pc
    /\ frame' = m.frame
    /\ logs' = m.logs
    /\ net' = m.net
    /\ result' = m.result
    /\ raised' = m.raised
    /\ _CACHED_ASANA_PROJECT_MAP' = m.P
    /\ _CACHED_ASANA_TAG_MAP' = m.T
    /\ _CACHED_ASANA_USER_MAP' = m.U
    /\ asana_resolved' = m.K

\* self.send_to_asana(project, tags, followers) up to its first request
SendToAsana(self, project, tags, followers) ==
    /\ Idle
    /\ LET g == _passed_rate_limit(self.rate_limit, self.last_sent, "asana", now)
       IN /\ call' = [method |-> "send_to_asana", test_mode |-> TEST_MODE,
                      passed |-> g.passed, self |-> self,
                      args |-> <<project, tags, followers>>,
                      returns |-> "self"]
          /\ Install(IF g.passed THEN send_to_asana(self, project, tags, followers)
                     ELSE mdone(NewMachine(NoFrame)))
    /\ UNCHANGED <<env_vars, rate_vars, retry_vars, _GRAPHITE_SOCKET>>

\* The Asana API answers the request send_to_asana waits for
AsanaResponse(r) ==
    /\ pc \in {"asana:projects", "asana:users", "asana:tags", "asana:dup",
               "asana:create"}
    /\ r \in AsanaResponses(Machine)
    /\ Install(asana_on_response(Machine, r))
    /\ UNCHANGED <<call, env_vars, rate_vars, retry_vars, _GRAPHITE_SOCKET>>

\* self._send_to_jira(project_name, labels, watchers) up to its first request
SendToJira(self, project_name, labels, watchers) ==
    /\ Idle
    /\ LET g == _passed_rate_limit(self.rate_limit, self.last_sent, "jira", now)
       IN /\ call' = [method |-> "_send_to_jira", test_mode |-> TEST_MODE,
                      passed |-> g.passed, self |-> self,
                      args |-> <<project_name, labels, watchers>>,
                      returns |-> "self"]
          /\ Install(IF g.passed
                     THEN _send_to_jira("_send_to_jira", self, project_name,
                                        labels, watchers)
                     ELSE mdone(NewMachine(NoFrame)))
    /\ UNCHANGED <<env_vars, rate_vars, retry_vars, _GRAPHITE_SOCKET>>

\* self.send_to_bugtracker(project_name, labels, watchers): its gate, then
\* self._send_to_jira with its own gate, on an Alert whose last_sent the
\* first gate has written; after that call the method ends without a return
\* statement
SendToBugtracker(self, project_name, labels, watchers) ==
    /\ Idle
    /\ LET g == _passed_rate_limit(self.rate_limit, self.last_sent,
                                   "bugtracker", now)
           g2 == _passed_rate_limit(self.rate_limit, g.last_sent, "jira", now)
       IN /\ call' = [method |-> "send_to_bugtracker", test_mode |-> TEST_MODE,
                      passed |-> g.passed /\ g2.passed, self |-> self,
                      args |-> <<project_name, labels, watchers>>,
                      returns |-> IF g.passed THEN None ELSE "self"]
          /\ Install(IF g.passed /\ g2.passed
                     THEN _send_to_jira("send_to_bugtracker", self, project_name,
                                        labels, watchers)
                     ELSE mdone(NewMachine(NoFrame)))
    /\ UNCHANGED <<env_vars, rate_vars, retry_vars, _GRAPHITE_SOCKET>>

\* The Jira API answers the request _send_to_jira waits for
JiraResponse(r) ==
    /\ pc \in {"jira:projects", "jira:user", "jira:dup", "jira:create",
               "jira:watcher"}
    /\ r \in JiraResponses(Machine)
    /\ Install(jira_on_response(Machine, r))
    /\ UNCHANGED <<call, env_vars, rate_vars, retry_vars, _GRAPHITE_SOCKET>>

\* base.enter_test_mode()
enter_test_mode ==
    /\ TEST_MODE' = TRUE
    /\ UNCHANGED <<secrets, stackdriver_not_allowed, GOOGLE_API_CLIENT>>
    /\ UNCHANGED <<rate_vars, call_vars, retry_vars, tracker_vars>>

\* exit_test_mode of a flag that counts: test mode ends with the exit that
\* matches the first enter
exit_test_mode_nested ==
    /\ TEST_MODE' =
           (Len(SelectSeq(history, LAMBDA h : h.op = "enter"))
                - Len(SelectSeq(history, LAMBDA h : h.op = "exit")) > 1)
    /\ UNCHANGED <<secrets, stackdriver_not_allowed, GOOGLE_API_CLIENT>>
    /\ UNCHANGED <<rate_vars, call_vars, retry_vars, tracker_vars>>

\* base.exit_test_mode()
exit_test_mode ==
    /\ TEST_MODE' = FALSE
    /\ UNCHANGED <<secrets, stackdriver_not_allowed, GOOGLE_API_CLIENT>>
    /\ UNCHANGED <<rate_vars, call_vars, retry_vars, tracker_vars>>

\* The caller has the outcome of its call and goes on; what the call logged
\* and requested is kept no longer. Secrets, the test-mode flag, the caches
\* and the sockets stay as they are.
CallerGoesOn ==
    /\ result \in {"returned", "raised"}
    /\ call' = NoCall
    /\ net' = <<>>
    /\ logs' = <<>>
    /\ result' = "none"
    /\ raised' = NoExc
    /\ pc' = "idle"
    /\ frame' = NoFrame
    /\ RetryReset
    /\ UNCHANGED <<env_vars, rate_vars>>
    /\ UNCHANGED <<_CACHED_ASANA_PROJECT_MAP, _CACHED_ASANA_TAG_MAP,
                   _CACHED_ASANA_USER_MAP, asana_resolved, _GRAPHITE_SOCKET>>

Init ==
    /\ RateIdle
    /\ TEST_MODE = FALSE
    /\ secrets \in {AllSecrets, {}}
    /\ stackdriver_not_allowed = FALSE
    /\ GOOGLE_API_CLIENT = FALSE
    /\ CallIdle
    /\ RetryIdle
    /\ TrackerIdle
    /\ ScriptIdle

\* An Alert with rate_limit 2 that has just sent to the services sent_to
JustSent(sent_to) ==
    [Alert(<<"h", "i">>, NoSummary, ERROR, FALSE) EXCEPT
         !.rate_limit = <<2>>, !.last_sent = [s \in sent_to |-> now]]

\* The calls a caller makes, with the arguments it can give and what the
\* network can do to each. request.execute of send_to_stackdriver works, or
\* fails with a status that is retried, or with one that is not.
NextSend ==
    \/ \E self \in SendAlerts, color \in {Omitted, <<"green">>}, o1, o2 \in PostOutcomes :
           SendToHipchat(self, "room", color, Omitted, o1, o2)
    \/ \E self \in SendAlerts, simple_message \in BOOLEAN, o \in PostOutcomes :
           SendToSlack(self, "#channel", simple_message, o)
    \/ \E self \in SendAlerts, t \in MailTransports,
          u \in {<<<<"u">>>>, <<<<"u", "@", "khanacademy.org">>, <<"v">>>>,
                 <<<<"u", "@", "example.com">>>>},
          cc \in {Omitted, <<<<<<"w">>>>>>, <<<<<<"w", "@", "example.com">>>>>>},
          bcc \in {Omitted, <<<<<<"x">>, <<"y", "@", "example.com">>>>>>} :
           SendToEmail(self, u, cc, bcc, t)
    \/ \E self \in SendAlerts, t \in MailTransports,
          s \in {<<<<"o", "n", " ", "C">>>>,
                 <<<<"o", "n", "@", "khan-academy.pagerduty.com">>>>} :
           SendToPagerduty(self, s, t)
    \/ \E self \in SendAlerts, have_syslog \in BOOLEAN : SendToLogs(self, have_syslog)
    \/ \E self \in SendAlerts, value \in {"1", "12.0", "0.5", "inf"}, n \in GraphiteNets :
           SendToGraphite(self, "stat", value, n)
    \/ \E self \in SendAlerts, o \in PostOutcomes,
          resource \in {Omitted, <<"webapp">>, <<"no such resource">>},
          event \in {Omitted, <<"event">>} :
           SendToAlerta(self, "infrastructure", resource, event, o)
    \/ \E self \in SendAlerts, state \in {Omitted, <<"success">>}, o \in PostOutcomes :
           SendToGithubCommitStatus(self, "sha", state, o)
    \/ \E self \in StackdriverAlerts, m \in MetricNames,
          f \in {{FnReturns}, {HttpError(503, {})}, {HttpError(401, {})}}, ie \in IgnoreErrorsArgs,
          build_ok \in BOOLEAN :
           SendToStackdriver(self, m, ie, f, build_ok)
    \/ \E self \in SendAlerts \cup {JustSent({"asana"})},
          project \in {"Engineering support", "No such project"},
          tags \in {Omitted, <<<<"quick", "P1">>>>, <<<<"No such tag">>>>},
          followers \in {Omitted, <<<<"u1@example.com", "nobody@example.com">>>>} :
           SendToAsana(self, project, tags, followers)
    \/ \E self \in SendAlerts \cup {JustSent({"jira"})},
          project_name \in {Omitted, <<"Infrastructure">>, <<"Tutor Platform">>,
                            <<"No such project">>},
          labels \in {Omitted, <<<<<<"awaiting", " ", "deploy">>>>>>},
          watchers \in {Omitted, <<<<"w1@example.com", "w2@example.com">>>>} :
           SendToJira(self, project_name, labels, watchers)
    \/ \E self \in SendAlerts \cup {JustSent({"bugtracker"}), JustSent({"jira"})},
          project_name \in {Omitted, <<"Infrastructure">>, <<"Tutor Platform">>,
                            <<"No such project">>} :
           SendToBugtracker(self, project_name, Omitted, Omitted)

Next ==
    \/ Idle /\ NextSend /\ UNCHANGED script_vars
    \/ Idle /\ enter_test_mode /\ UNCHANGED script_vars
    \/ Idle /\ exit_test_mode /\ UNCHANGED script_vars
    \/ \E o \in FnOutcomes : FnCall(o) /\ UNCHANGED script_vars
    \/ Sleep /\ UNCHANGED script_vars
    \/ DatapointsDone /\ UNCHANGED script_vars
    \/ \E r \in AsanaResponses(Machine) : AsanaResponse(r) /\ UNCHANGED script_vars
    \/ \E r \in JiraResponses(Machine) : JiraResponse(r) /\ UNCHANGED script_vars
    \/ CallerGoesOn /\ UNCHANGED script_vars

Spec == Init /\ [][Next]_vars

(***************************************************************************)
(* SpecSummary: BaseMixin._get_summary, called on Alerts of every kind.    *)
(***************************************************************************)
\* Alert(message, summary=..., severity=..., html=...): messages that are
\* empty, shorter and longer than MaxSummaryLen, with a '.' before, at and
\* after that length, of one line and of several; no summary, an empty one,
\* one with a '.', one longer than MaxSummaryLen; every level of logging, 0
\* and a level of the caller's own
SummaryAlerts ==
    LET As(n) == [k \in 1..n |-> "a"]
        messages == {<<>>, <<"h", "i", ".", "\n", "8", ")">>,
                     As(MaxSummaryLen + 10),
                     As(MaxSummaryLen - 1) \o <<".", "b", "b">>,
                     As(MaxSummaryLen) \o <<".", "b">>,
                     As(MaxSummaryLen + 1) \o <<"\n", "b">>,
                     <<"\n", "x">>, <<".", "a">>, <<"a", "\n", "b", ".">>}
        summaries == {NoSummary, <<<<>>>>, <<<<"s", ".", "u", "m">>>>,
                      <<[k \in 1..(MaxSummaryLen + 1) |-> "s"]>>}
        severities == {NOTSET, DEBUG, INFO, WARNING, ERROR, CRITICAL,
                       CUSTOM_SEVERITY}
    IN {Alert(m, s, sev, h) : m \in messages, s \in summaries,
                              sev \in severities, h \in BOOLEAN}

InitSummary ==
    /\ RateIdle
    /\ TEST_MODE = FALSE
    /\ secrets = AllSecrets
    /\ stackdriver_not_allowed = FALSE
    /\ GOOGLE_API_CLIENT = FALSE
    /\ CallIdle
    /\ RetryIdle
    /\ TrackerIdle
    /\ ScriptIdle

\* self._get_summary(), as the send_to_X methods call it: value is what it
\* returns
GetSummary(self) ==
    /\ call' = [method |-> "_get_summary", self |-> self,
                value |-> _get_summary(self)]
    /\ result' = "returned"
    /\ UNCHANGED <<net, logs, raised>>
    /\ UNCHANGED <<env_vars, rate_vars, retry_vars, tracker_vars>>

NextSummary == \E self \in SummaryAlerts : GetSummary(self) /\ UNCHANGED script_vars

SpecSummary == InitSummary /\ [][NextSummary]_vars

(***************************************************************************)
(* SpecGate: Alerts with a rate limit sent to graphite and to hipchat, in  *)
(* and out of test mode, while the clock advances.                         *)
(***************************************************************************)
\* Alert a as an object: "a1" has no summary, "a2" has one
GateAlert(a) ==
    [Alert(<<"m">>, IF a = "a1" THEN NoSummary ELSE <<<<"s", "u", "m">>>>,
           INFO, FALSE)
        EXCEPT !.rate_limit = rate_limit[a], !.last_sent = last_sent[a]]

\* The rate_limit of an Alert is a short one, or one as long as the default
\* of last_sent.get is far from 0
InitGate ==
    /\ now = 0
    /\ rate_limit \in [Alerts -> {<<2>>, <<0 - NeverSent>>}]
    /\ last_sent = [a \in Alerts |-> EmptyDict]
    /\ sent = [a \in Alerts |-> [s \in RateServices |-> 0]]
    /\ calls = [a \in Alerts |-> [s \in RateServices |-> <<>>]]
    /\ TEST_MODE = FALSE
    /\ secrets = AllSecrets
    /\ stackdriver_not_allowed = FALSE
    /\ GOOGLE_API_CLIENT = FALSE
    /\ CallIdle
    /\ RetryIdle
    /\ TrackerIdle
    /\ ScriptIdle

\* a.send_to_graphite('stat') or a.send_to_hipchat('room') as a whole: the
\* gate, which writes last_sent, then the body; the call is kept in calls
\* with the clock, what the gate said, the test-mode flag, and the log
\* records and requests of the body. The requests of the body work.
GateSend(a, s) ==
    /\ TotalCalls < MaxCalls
    /\ LET self == GateAlert(a)
           g == _passed_rate_limit(self.rate_limit, self.last_sent, s, now)
           graphite == send_to_graphite(self, "stat", "1",
                           [stale |-> FALSE, connect |-> "ok", send |-> "ok"])
           body == IF s = "graphite" THEN graphite.eff
                   ELSE send_to_hipchat(self, "room", Omitted, Omitted, "ok", "ok")
           e == IF g.passed THEN body ELSE Nothing
       IN /\ last_sent' = [last_sent EXCEPT ![a] = g.last_sent]
          /\ sent' = [sent EXCEPT ![a][s] = IF g.passed THEN @ + 1 ELSE @]
          /\ calls' = [calls EXCEPT ![a][s] =
                          Append(@, [t |-> now, passed |-> g.passed,
                                     test_mode |-> TEST_MODE,
                                     logs |-> e.logs, net |-> e.net])]
          /\ _GRAPHITE_SOCKET' = IF g.passed /\ s = "graphite" THEN graphite.sock
                                 ELSE _GRAPHITE_SOCKET
    /\ UNCHANGED <<now, rate_limit>>
    /\ UNCHANGED <<env_vars, call_vars, retry_vars>>
    /\ UNCHANGED <<pc, frame, _CACHED_ASANA_PROJECT_MAP, _CACHED_ASANA_TAG_MAP,
                   _CACHED_ASANA_USER_MAP, asana_resolved>>

NextGate ==
    \/ Tick /\ UNCHANGED script_vars
    \/ enter_test_mode /\ UNCHANGED script_vars
    \/ exit_test_mode /\ UNCHANGED script_vars
    \/ \E a \in Alerts, s \in RateServices : GateSend(a, s) /\ UNCHANGED script_vars

SpecGate == InitGate /\ [][NextGate]_vars

(***************************************************************************)
(* SpecScript: a caller that hands the same list objects to one call after *)
(* another, as alert.py does with args.bug_tags and args.pagerduty.        *)
(***************************************************************************)
\* How many calls the script makes
MaxScriptCalls == 2

\* The Alert that alert.py builds from its arguments
ScriptAlert == Alert(<<"h", "i">>, NoSummary, ERROR, FALSE)

\* What _service_name_to_email leaves in the list it was given
\* (pagerduty.py:35-42): it writes each address over its name, up to the
\* first name with an '@', where it raises
RECURSIVE _service_name_to_email_leaves(_)
_service_name_to_email_leaves(lst) ==
    IF lst = <<>> THEN lst
    ELSE IF HasAt(lst[1]) THEN lst
    ELSE _service_name_to_email(<<lst[1]>>).value
             \o _service_name_to_email_leaves(Tail(lst))

\* A label of Jira is its words, a tag of Asana a string: the tags of the
\* script, which have one word each, as labels and back
AsLabels(lst) == [k \in 1..Len(lst) |-> <<lst[k]>>]

AsTags(lst) == [k \in 1..Len(lst) |-> lst[k][1]]

\* The list object the caller gave to the call that has ended
GivenList ==
    CASE call.method = "send_to_pagerduty" -> call.args[1]
      [] call.method = "send_to_asana" -> call.args[2][1]
      [] OTHER -> AsTags(call.args[2][1])

\* What is in that list object when the call has ended: "tags or []" and
\* "labels or []" are the caller's list unless it is empty, and append
\* changes it in place (asana.py:268-282, jira.py:211, 234)
LeftList ==
    CASE ~call.passed -> GivenList
      [] call.method = "send_to_pagerduty" -> _service_name_to_email_leaves(GivenList)
      [] GivenList = <<>> -> GivenList
      [] call.method = "send_to_asana" -> frame.tags
      [] OTHER -> AsTags(frame.labels)

\* The tags, labels or addresses that the call went on with: <<them>>, or
\* <<>> when it did not get that far
UsedList ==
    CASE ~call.passed -> <<>>
      [] call.method = "send_to_pagerduty" ->
             IF _service_name_to_email(GivenList).raises THEN <<>>
             ELSE <<_service_name_to_email(GivenList).value>>
      [] call.method = "send_to_asana" -> <<frame.tags>>
      [] OTHER -> IF frame.jira_labels = <<>> THEN <<>>
                  ELSE <<AsTags(frame.jira_labels)>>

InitScript ==
    /\ RateIdle
    /\ TEST_MODE = FALSE
    /\ secrets = AllSecrets
    /\ stackdriver_not_allowed = FALSE
    /\ GOOGLE_API_CLIENT = FALSE
    /\ CallIdle
    /\ RetryIdle
    /\ TrackerIdle
    /\ script_args \in [bug_tags : {<<>>, <<"quick">>},
                        pagerduty : {<<<<"o", "n", " ", "C">>>>}]
    /\ history = <<>>
    /\ other = NoFrame

\* The call returns to the script, which goes on to its next line: the
\* history keeps what the call was given, what it left in the caller's list,
\* what it used, whether it asked Jira for the list of projects, and how it
\* ended
ScriptGoesOn ==
    /\ CallerGoesOn
    /\ script_args' =
           IF call.method = "send_to_pagerduty"
           THEN [script_args EXCEPT !.pagerduty = LeftList]
           ELSE [script_args EXCEPT !.bug_tags = LeftList]
    /\ history' = Append(history,
           [method |-> call.method, given |-> GivenList, left |-> LeftList,
            used |-> UsedList, result |-> result,
            listed |-> \E k \in 1..Len(net) : net[k].what = "GET project"])
    /\ UNCHANGED other

\* alert.py:238-245
NextScript ==
    \/ /\ Len(history) < MaxScriptCalls
       /\ SendToAsana(ScriptAlert, "Engineering support",
                      <<script_args.bug_tags>>, Omitted)
       /\ UNCHANGED script_vars
    \/ \E project \in {"Infrastructure", "Tutor Platform"} :
           /\ Len(history) < MaxScriptCalls
           /\ SendToBugtracker(ScriptAlert, <<project>>,
                               <<AsLabels(script_args.bug_tags)>>, Omitted)
           /\ UNCHANGED script_vars
    \/ \E t \in {[sendgrid |-> "NameError", gae |-> "NameError", sendmail |-> "sent"]} :
           /\ Len(history) < MaxScriptCalls
           /\ SendToPagerduty(ScriptAlert, script_args.pagerduty, t)
           /\ UNCHANGED script_vars
    \/ \E r \in AsanaResponses(Machine) : AsanaResponse(r) /\ UNCHANGED script_vars
    \/ \E r \in JiraResponses(Machine) : JiraResponse(r) /\ UNCHANGED script_vars
    \/ ScriptGoesOn

SpecScript == InitScript /\ [][NextScript]_vars

(***************************************************************************)
(* SpecSlot: sends on an Alert with a rate limit that pass the gate and    *)
(* then fail, are given up or deliver, while the clock advances.           *)
(***************************************************************************)
\* What the Asana API answers to the request m waits for when all goes
\* well; to the duplicate check it answers with an open task of the name
\* and tags of the new one (dup), or with none
AsanaAnswer(m, dup) ==
    CASE m.pc = "asana:projects" -> Ok(AsanaProjectList)
      [] m.pc = "asana:users" -> Ok(<<[email |-> "u1@example.com", id |-> 31]>>)
      [] m.pc = "asana:tags" -> Ok(AsanaTagList)
      [] m.pc = "asana:dup" ->
             CHOOSE r \in AsanaResponses(m) :
                 /\ r.kind = "ok"
                 /\ Len(r.holds) = IF dup THEN 1 ELSE 0
                 /\ dup => /\ r.holds[1].name = m.frame.task_name
                           /\ ~r.holds[1].completed
                           /\ r.holds[1].tags = {m.frame.tag_ids[k] :
                                                     k \in 1..Len(m.frame.tag_ids)}
                           /\ r.holds[1].projects = {m.frame.project_ids[k] :
                                                         k \in 1..Len(m.frame.project_ids)}
      [] OTHER -> Ok(<<>>)

\* send_to_asana from the state m to its end, with those answers
RECURSIVE asana_run(_, _)
asana_run(m, dup) ==
    IF m.result # "running" THEN m
    ELSE asana_run(asana_on_response(m, AsanaAnswer(m, dup)), dup)

\* The sends of this specification: the backend and how the send goes
SlotSends ==
    {<<"hipchat", "ok">>, <<"hipchat", "failed">>,
     <<"email", "sent">>, <<"email", "error">>, <<"email", "bad address">>,
     <<"asana", "created">>, <<"asana", "duplicate">>, <<"asana", "no project">>}

InitSlot ==
    /\ now = 0
    /\ rate_limit = [a \in Alerts |-> <<2>>]
    /\ last_sent = [a \in Alerts |-> EmptyDict]
    /\ sent = [a \in Alerts |-> [s \in RateServices |-> 0]]
    /\ calls = [a \in Alerts |-> [s \in RateServices |-> <<>>]]
    /\ TEST_MODE = FALSE
    /\ secrets \in {AllSecrets, {}}
    /\ stackdriver_not_allowed = FALSE
    /\ GOOGLE_API_CLIENT = FALSE
    /\ CallIdle
    /\ RetryIdle
    /\ TrackerIdle
    /\ ScriptIdle

\* SlotSend that writes last_sent when the body has returned, not in the gate
SlotSendOnReturn(a, s, how) ==
    /\ Len(history) < MaxCalls
    /\ LET self == GateAlert(a)
           g == _passed_rate_limit(self.rate_limit, self.last_sent, s, now)
           m == asana_run(send_to_asana(self,
                              IF how = "no project" THEN "No such project"
                              ELSE "Engineering support", Omitted, Omitted),
                          how = "duplicate")
           body == CASE s = "hipchat" ->
                            send_to_hipchat(self, "room", Omitted, Omitted, how, how)
                     [] s = "email" ->
                            send_to_email(self,
                                IF how = "bad address"
                                THEN <<<<"u", "@", "example.com">>>>
                                ELSE <<<<"u">>>>, Omitted, Omitted,
                                [sendgrid |-> "NameError", gae |-> "NameError",
                                 sendmail |-> how])
                     [] OTHER -> [logs |-> m.logs, net |-> m.net,
                                  result |-> m.result, raised |-> m.raised]
           e == IF g.passed THEN body ELSE Nothing
           done == g.passed /\ e.result = "returned"
                       /\ \A k \in 1..Len(e.logs) : e.logs[k].level # "ERROR"
       IN /\ last_sent' = IF done THEN [last_sent EXCEPT ![a] = g.last_sent]
                          ELSE last_sent
          /\ history' = Append(history,
                 [a |-> a, s |-> s, t |-> now, passed |-> g.passed,
                  result |-> e.result, logs |-> e.logs, net |-> e.net])
          /\ _CACHED_ASANA_PROJECT_MAP' =
                 IF g.passed /\ s = "asana" THEN m.P ELSE _CACHED_ASANA_PROJECT_MAP
          /\ _CACHED_ASANA_TAG_MAP' =
                 IF g.passed /\ s = "asana" THEN m.T ELSE _CACHED_ASANA_TAG_MAP
          /\ _CACHED_ASANA_USER_MAP' =
                 IF g.passed /\ s = "asana" THEN m.U ELSE _CACHED_ASANA_USER_MAP
          /\ asana_resolved' = IF g.passed /\ s = "asana" THEN m.K ELSE asana_resolved
    /\ UNCHANGED <<now, rate_limit, sent, calls, script_args, other>>
    /\ UNCHANGED <<env_vars, call_vars, retry_vars>>
    /\ UNCHANGED <<pc, frame, _GRAPHITE_SOCKET>>

\* a.send_to_hipchat('room'), a.send_to_email(...) or a.send_to_asana(...)
\* as a whole: the gate, which writes last_sent, then the body, which goes
\* as how says; the history keeps the call with the clock, what the gate
\* said, and the log records, requests and end of the body.
SlotSend(a, s, how) ==
    /\ Len(history) < MaxCalls
    /\ LET self == GateAlert(a)
           g == _passed_rate_limit(self.rate_limit, self.last_sent, s, now)
           m == asana_run(send_to_asana(self,
                              IF how = "no project" THEN "No such project"
                              ELSE "Engineering support", Omitted, Omitted),
                          how = "duplicate")
           body == CASE s = "hipchat" ->
                            send_to_hipchat(self, "room", Omitted, Omitted, how, how)
                     [] s = "email" ->
                            send_to_email(self,
                                IF how = "bad address"
                                THEN <<<<"u", "@", "example.com">>>>
                                ELSE <<<<"u">>>>, Omitted, Omitted,
                                [sendgrid |-> "NameError", gae |-> "NameError",
                                 sendmail |-> how])
                     [] OTHER -> [logs |-> m.logs, net |-> m.net,
                                  result |-> m.result, raised |-> m.raised]
           e == IF g.passed THEN body ELSE Nothing
       IN /\ last_sent' = [last_sent EXCEPT ![a] = g.last_sent]
          /\ history' = Append(history,
                 [a |-> a, s |-> s, t |-> now, passed |-> g.passed,
                  result |-> e.result, logs |-> e.logs, net |-> e.net])
          /\ _CACHED_ASANA_PROJECT_MAP' =
                 IF g.passed /\ s = "asana" THEN m.P ELSE _CACHED_ASANA_PROJECT_MAP
          /\ _CACHED_ASANA_TAG_MAP' =
                 IF g.passed /\ s = "asana" THEN m.T ELSE _CACHED_ASANA_TAG_MAP
          /\ _CACHED_ASANA_USER_MAP' =
                 IF g.passed /\ s = "asana" THEN m.U ELSE _CACHED_ASANA_USER_MAP
          /\ asana_resolved' = IF g.passed /\ s = "asana" THEN m.K ELSE asana_resolved
    /\ UNCHANGED <<now, rate_limit, sent, calls, script_args, other>>
    /\ UNCHANGED <<env_vars, call_vars, retry_vars>>
    /\ UNCHANGED <<pc, frame, _GRAPHITE_SOCKET>>

NextSlot ==
    \/ Tick /\ UNCHANGED script_vars
    \/ \E p \in SlotSends : SlotSend("a1", p[1], p[2])

SpecSlot == InitSlot /\ [][NextSlot]_vars


(***************************************************************************)
(* SpecRace: two threads call send_to_asana in a process whose caches are  *)
(* empty. A thread runs from response to response as before, except in the *)
(* loops that fill the project and the tag cache (asana.py:176-181 and     *)
(* 215-219), where another thread can run between the test "name not in    *)
(* map", the store "map[name] = []", the load of map[name] and its append. *)
(***************************************************************************)
RaceThreads == {1, 2}

\* The tags the list of the workspace has for a send with severity ERROR
RaceTagList ==
    <<[name |-> "P2", id |-> 22], [name |-> "Auto generated", id |-> 26],
      [name |-> "Auto generated", id |-> 27]>>

\* What a thread that has not called yet holds
NoThread ==
    [pc |-> "idle", frame |-> NoFrame, logs |-> <<>>, net |-> <<>>,
     result |-> "none", raised |-> NoExc]

\* The position and local state of thread th: the first thread is the send
\* of pc and frame, the second one is other
Thread(th) ==
    IF th = 1
    THEN [pc |-> pc, frame |-> frame, logs |-> logs, net |-> net,
          result |-> result, raised |-> raised]
    ELSE other

\* Thread th as a send in progress, with the caches of the module
ThreadMachine(th) ==
    LET t == Thread(th)
    IN [pc |-> t.pc, frame |-> t.frame, logs |-> t.logs, net |-> t.net,
        P |-> _CACHED_ASANA_PROJECT_MAP, T |-> _CACHED_ASANA_TAG_MAP,
        U |-> _CACHED_ASANA_USER_MAP, K |-> asana_resolved,
        result |-> t.result, raised |-> t.raised]

\* Thread th goes on as the record m says, which leaves the other thread as
\* peer
RaceInstall(th, m, peer) ==
    LET mine == [pc |-> m.pc, frame |-> m.frame, logs |-> m.logs, net |-> m.net,
                 result |-> m.result, raised |-> m.raised]
        t1 == IF th = 1 THEN mine ELSE peer
        t2 == IF th = 1 THEN peer ELSE mine
    IN /\ pc' = t1.pc
       /\ frame' = t1.frame
       /\ logs' = t1.logs
       /\ net' = t1.net
       /\ result' = t1.result
       /\ raised' = t1.raised
       /\ other' = t2
       /\ _CACHED_ASANA_PROJECT_MAP' = m.P
       /\ _CACHED_ASANA_TAG_MAP' = m.T
       /\ _CACHED_ASANA_USER_MAP' = m.U
       /\ asana_resolved' = m.K
       /\ UNCHANGED <<call, env_vars, rate_vars, retry_vars, _GRAPHITE_SOCKET,
                      script_args, history>>

\* The loops of asana.py:176-181 and 215-219 over the items of the response
AsanaLoops == {"asana:projects:loop", "asana:tags:loop"}

\* _call_asana_api from urlopen on, as asana_on_response; with the data of
\* a list of projects or tags the thread enters the loop over its items
race_on_response(m, r) ==
    IF m.pc \in {"asana:projects", "asana:tags"} /\ r.kind = "ok"
    THEN [m EXCEPT !.pc = IF m.pc = "asana:projects" THEN "asana:projects:loop"
                          ELSE "asana:tags:loop",
                   !.frame = [todo |-> r.data[1], at |-> "test", stale |-> FALSE]
                             @@ [@ EXCEPT !.answers = Append(@, r)]]
    ELSE asana_on_response(m, r)

\* One step of thread m in its loop over the items still to do: "test" is
\* "if name not in map", "set" is "map[name] = []", "load" evaluates
\* map[name] and "append" calls .append(id) of the list it loaded. A list
\* that the other thread loaded is no longer in the map once "set" has put
\* a new one there (stale). After the last item the send goes on as
\* asana_projects_result and asana_tags_result do after theirs.
\* The step that appends the id twice
race_loop_appends_twice(m, peer) ==
    LET f == m.frame
        tag == m.pc = "asana:tags:loop"
        map == IF tag THEN m.T ELSE m.P
        n == Head(f.todo).name
        Store(new) == IF tag THEN [m EXCEPT !.T = new] ELSE [m EXCEPT !.P = new]
        At(m2, at) == [m2 EXCEPT !.frame.at = at]
    IN IF f.todo = <<>>
       THEN [m |-> IF tag THEN asana_got_tags(m)
                   ELSE asana_got_projects(m, DictGet(m.P, f.project, <<>>)),
             peer |-> peer]
       ELSE CASE f.at = "test" ->
                     [m |-> At(m, IF n \in DOMAIN map THEN "load" ELSE "set"),
                      peer |-> peer]
              [] f.at = "set" ->
                     [m |-> At(Store(DictSet(map, n, <<>>)), "load"),
                      peer |-> IF /\ peer.pc = m.pc /\ peer.frame.todo # <<>>
                                  /\ peer.frame.at = "append"
                                  /\ Head(peer.frame.todo).name = n
                               THEN [peer EXCEPT !.frame.stale = TRUE]
                               ELSE peer]
              [] f.at = "load" ->
                     [m |-> [m EXCEPT !.frame.at = "append", !.frame.stale = FALSE],
                      peer |-> peer]
              [] f.at = "append" ->
                     [m |-> [(IF f.stale THEN m
                              ELSE Store(DictSet(map, n, map[n] \o
                                       <<Head(f.todo).id, Head(f.todo).id>>)))
                             EXCEPT !.frame.todo = Tail(@), !.frame.at = "test"],
                      peer |-> peer]

race_loop(m, peer) ==
    LET f == m.frame
        tag == m.pc = "asana:tags:loop"
        map == IF tag THEN m.T ELSE m.P
        n == Head(f.todo).name
        Store(new) == IF tag THEN [m EXCEPT !.T = new] ELSE [m EXCEPT !.P = new]
        At(m2, at) == [m2 EXCEPT !.frame.at = at]
    IN IF f.todo = <<>>
       THEN [m |-> IF tag THEN asana_got_tags(m)
                   ELSE asana_got_projects(m, DictGet(m.P, f.project, <<>>)),
             peer |-> peer]
       ELSE CASE f.at = "test" ->
                     [m |-> At(m, IF n \in DOMAIN map THEN "load" ELSE "set"),
                      peer |-> peer]
              [] f.at = "set" ->
                     [m |-> At(Store(DictSet(map, n, <<>>)), "load"),
                      peer |-> IF /\ peer.pc = m.pc /\ peer.frame.todo # <<>>
                                  /\ peer.frame.at = "append"
                                  /\ Head(peer.frame.todo).name = n
                               THEN [peer EXCEPT !.frame.stale = TRUE]
                               ELSE peer]
              [] f.at = "load" ->
                     [m |-> [m EXCEPT !.frame.at = "append", !.frame.stale = FALSE],
                      peer |-> peer]
              [] f.at = "append" ->
                     [m |-> [(IF f.stale THEN m
                              ELSE Store(DictSet(map, n,
                                       Append(map[n], Head(f.todo).id))))
                             EXCEPT !.frame.todo = Tail(@), !.frame.at = "test"],
                      peer |-> peer]

\* What the Asana API answers a thread: a list of tags is RaceTagList, and
\* the duplicate check finds no task
RaceResponses(m) ==
    CASE m.pc = "asana:tags" -> {Failure, Ok(RaceTagList)}
      [] m.pc = "asana:dup" ->
             {r \in AsanaResponses(m) : r.kind = "ok" /\ r.holds = <<>>}
      [] OTHER -> AsanaResponses(m)

\* Thread th calls send_to_asana('Engineering support') on its Alert, which
\* has no rate limit, and runs up to its first request
RaceStart(th) ==
    /\ Thread(th) = NoThread
    /\ _passed_rate_limit(ScriptAlert.rate_limit, ScriptAlert.last_sent,
                          "asana", now).passed
    /\ RaceInstall(th, send_to_asana(ScriptAlert, "Engineering support",
                                     Omitted, Omitted),
                   Thread(3 - th))

\* The Asana API answers the request thread th waits for
RaceResponse(th, r) ==
    /\ Thread(th).pc \in {"asana:projects", "asana:users", "asana:tags",
                          "asana:dup", "asana:create"}
    /\ r \in RaceResponses(ThreadMachine(th))
    /\ RaceInstall(th, race_on_response(ThreadMachine(th), r), Thread(3 - th))

\* Thread th takes one step of its loop
RaceLoop(th) ==
    /\ Thread(th).pc \in AsanaLoops
    /\ LET s == race_loop(ThreadMachine(th), Thread(3 - th))
       IN RaceInstall(th, s.m, s.peer)

InitRace ==
    /\ RateIdle
    /\ TEST_MODE = FALSE
    /\ secrets = AllSecrets
    /\ stackdriver_not_allowed = FALSE
    /\ GOOGLE_API_CLIENT = FALSE
    /\ CallIdle
    /\ RetryIdle
    /\ TrackerIdle
    /\ script_args = [bug_tags |-> <<>>, pagerduty |-> <<>>]
    /\ history = <<>>
    /\ other = NoThread

NextRace ==
    \/ \E th \in RaceThreads : RaceStart(th)
    \/ \E th \in RaceThreads :
           \E r \in RaceResponses(ThreadMachine(th)) : RaceResponse(th, r)
    \/ \E th \in RaceThreads : RaceLoop(th)

SpecRace == InitRace /\ [][NextRace]_vars

(***************************************************************************)
(* SpecFlag: a caller makes Alerts, calls enter_test_mode() and            *)
(* exit_test_mode() in any order, and sends the Alerts to hipchat; history *)
(* keeps what it did, in order.                                            *)
(***************************************************************************)
MaxFlagCalls == 4

\* The Alerts the caller has made so far
Constructed == {history[k].a : k \in {j \in 1..Len(history) : history[j].op = "construct"}}

\* There is room for one more call that is not a send
FlagRoom == Len(SelectSeq(history, LAMBDA h : h.op # "send")) < MaxFlagCalls

\* a = alertlib.Alert(message): BaseMixin.__init__ reads no module state
Construct(a) ==
    /\ FlagRoom
    /\ a \notin Constructed
    /\ history' = Append(history, [op |-> "construct", a |-> a])
    /\ UNCHANGED <<rate_vars, env_vars, call_vars, retry_vars, tracker_vars,
                   script_args, other>>

\* alertlib.enter_test_mode()
FlagEnter ==
    /\ FlagRoom
    /\ enter_test_mode
    /\ history' = Append(history, [op |-> "enter"])
    /\ UNCHANGED <<script_args, other>>

\* alertlib.exit_test_mode()
FlagExit ==
    /\ FlagRoom
    /\ exit_test_mode
    /\ history' = Append(history, [op |-> "exit"])
    /\ UNCHANGED <<script_args, other>>

\* a.send_to_hipchat('room') on an Alert made earlier; history keeps what
\* the call did
FlagSend(a) ==
    /\ a \in Constructed
    /\ GateSend(a, "hipchat")
    /\ history' = Append(history,
           [op |-> "send", a |-> a,
            did |-> calls'[a]["hipchat"][Len(calls'[a]["hipchat"])]])
    /\ UNCHANGED <<script_args, other>>

InitFlag ==
    /\ RateIdle
    /\ TEST_MODE = FALSE
    /\ secrets = AllSecrets
    /\ stackdriver_not_allowed = FALSE
    /\ GOOGLE_API_CLIENT = FALSE
    /\ CallIdle
    /\ RetryIdle
    /\ TrackerIdle
    /\ ScriptIdle

NextFlag ==
    \/ \E a \in Alerts : Construct(a)
    \/ FlagEnter
    \/ FlagExit
    \/ \E a \in Alerts : FlagSend(a)

SpecFlag == InitFlag /\ [][NextFlag]_vars
(***************************************************************************)
(* Claims about the rate limiter.                                          *)
(***************************************************************************)
Passes(h) == {p \in 1..Len(h) : h[p].passed}

\* C1: on an Alert with rate_limit R > 0, among the calls of one send_to_X
\* method: after a call that passed the gate at time t, every later call at
\* t' with t' - t <= R is skipped and sends nothing, the first later call with
\* t' - t > R passes and sends again, and the calls inside a window shorter
\* than R that starts at a passing call give exactly one send. A skipped call
\* leaves nothing behind: the sends are exactly the passing calls and
\* last_sent holds the time of the latest one.
C1_RateWindow ==
    \A a \in Alerts, s \in RateServices :
        Truthy(rate_limit[a]) =>
            LET h == calls[a][s]
                R == rate_limit[a][1]
            IN /\ \A p \in Passes(h), j \in 1..Len(h) :
                      (p < j /\ h[j].t - h[p].t <= R) => ~h[j].passed
               /\ \A p \in Passes(h) :
                      LET later == {j \in 1..Len(h) : p < j /\ h[j].t - h[p].t > R}
                      IN later # {} => h[SetMin(later)].passed
               /\ \A p \in Passes(h) :
                      Cardinality({j \in Passes(h) :
                                      p <= j /\ h[j].t - h[p].t < R}) = 1
               /\ sent[a][s] = Cardinality(Passes(h))
               /\ IF Passes(h) = {} THEN s \notin DOMAIN last_sent[a]
                  ELSE /\ s \in DOMAIN last_sent[a]
                       /\ last_sent[a][s] = h[SetMax(Passes(h))].t

\* C1's case: a call passed, a call exactly R later was skipped, and a later
\* call passed and sent a second time.
C1_Witness ==
    \E a \in Alerts, s \in RateServices :
        /\ Truthy(rate_limit[a])
        /\ Len(calls[a][s]) = 3
        /\ calls[a][s][1].passed
        /\ ~calls[a][s][2].passed
        /\ calls[a][s][2].t - calls[a][s][1].t = rate_limit[a][1]
        /\ calls[a][s][3].passed
        /\ sent[a][s] = 2

\* What the gate of (a, s) answers at clock value t, computed from the
\* earlier calls on (a, s) alone.
AllowedByOwnCalls(a, s, t) ==
    \/ ~Truthy(rate_limit[a])
    \/ Passes(calls[a][s]) = {}
    \/ t - calls[a][s][SetMax(Passes(calls[a][s]))].t > rate_limit[a][1]

CallTimes(a) ==
    UNION {{calls[a][s][p].t : p \in 1..Len(calls[a][s])} : s \in RateServices}

\* C2: the rate-limit state is per (Alert, backend name). A call on one pair
\* is allowed or not by the earlier calls on that pair alone, and changes
\* the limiter state and the sends of no other pair; a rate-limited Alert
\* sent to several backends in a burst sends exactly once to each.
C2_Scope ==
    /\ [][\A a \in Alerts, s \in RateServices :
            IF calls'[a][s] = calls[a][s]
            THEN /\ sent'[a][s] = sent[a][s]
                 /\ (s \in DOMAIN last_sent'[a]) = (s \in DOMAIN last_sent[a])
                 /\ DictGet(last_sent'[a], s, NeverSent)
                        = DictGet(last_sent[a], s, NeverSent)
            ELSE /\ calls'[a][s][Len(calls'[a][s])].passed
                        = AllowedByOwnCalls(a, s, now)
                 /\ sent'[a][s] = sent[a][s]
                        + (IF AllowedByOwnCalls(a, s, now) THEN 1 ELSE 0)
         ]_vars
    /\ [](\A a \in Alerts :
            (/\ Truthy(rate_limit[a])
             /\ CallTimes(a) # {}
             /\ SetMax(CallTimes(a)) - SetMin(CallTimes(a)) <= rate_limit[a][1])
            => \A s \in RateServices :
                  calls[a][s] # <<>> => sent[a][s] = 1)

\* C2's case: two Alerts with the same rate limit, one sent to two backends
\* and the other to one of them in the same burst, each send effective.
C2_Witness ==
    \E a, b \in Alerts : \E s, u \in RateServices :
        /\ a # b /\ s # u
        /\ Truthy(rate_limit[a]) /\ rate_limit[a] = rate_limit[b]
        /\ Len(calls[a][s]) = 1 /\ Len(calls[a][u]) = 1 /\ Len(calls[b][s]) = 1
        /\ calls[a][s][1].t = calls[b][s][1].t
        /\ calls[a][s][1].t = calls[a][u][1].t
        /\ sent[a][s] = 1 /\ sent[a][u] = 1 /\ sent[b][s] = 1


(***************************************************************************)
(* Claims about _call_stackdriver_with_retries and its callers.            *)
(***************************************************************************)
\* The benign-duplicate responses: HTTP 400 'Timeseries data must be more
\* recent' and HTTP 500 '... older than the most recent stored point'
Benign(o) ==
    /\ o.type = "HttpError"
    /\ \/ o.status = 400 /\ RECENT \in o.msg
       \/ o.status = 500 /\ OLDER \in o.msg

\* The transient errors: socket.error, HTTPException, the Error of
\* oauth2client, HTTP 403, a non-benign HTTP status >= 500, HTTP 400 'One or
\* more TimeSeries could not be written' (a benign response is not one)
Transient(o) ==
    \/ o.type \in {"socket.error", "HTTPException", "oauth2client.client.Error"}
    \/ /\ o.type = "HttpError"
       /\ ~Benign(o)
       /\ \/ o.status = 403
          \/ o.status >= 500
          \/ o.status = 400 /\ NOT_WRITTEN \in o.msg

\* The fatal errors: an exception type outside the recognized set, or an
\* HttpError whose status is neither 403 nor >= 500 and whose 400 message is
\* neither of the two recognized ones
Fatal(o) ==
    \/ o.type \notin {"return", "socket.error", "HTTPException",
                      "oauth2client.client.Error", "HttpError"}
    \/ /\ o.type = "HttpError"
       /\ o.status # 403
       /\ o.status < 500
       /\ ~(o.status = 400 /\ (RECENT \in o.msg \/ NOT_WRITTEN \in o.msg))

AllTransient(h) == \A k \in 1..Len(h) : Transient(h[k])

Last(h) == h[Len(h)]

Finished == rpc \in {"returned", "raised"}

\* The test that called _call_stackdriver_with_retries has it back
DirectDone ==
    /\ call.method = "_call_stackdriver_with_retries"
    /\ result \in {"returned", "raised"}

C4_BenignNeverRaised ==
    (outcomes # <<>> /\ Benign(Last(outcomes))) =>
        /\ rpc # "raised"
        /\ DirectDone => result = "returned"

\* C5, as stated: after a benign-duplicate response fn is never called again
\* and no sleep follows, and a call whose first attempt gets that response
\* makes exactly one attempt and completes without raising.
C5_BenignStops ==
    /\ \A k \in 1..Len(outcomes) :
           Benign(outcomes[k]) =>
               /\ k = Len(outcomes)
               /\ Finished
               /\ Len(slept) = k - 1
    /\ (outcomes # <<>> /\ Benign(outcomes[1])) =>
           /\ fn_calls = 1
           /\ slept = <<>>
           /\ rpc = "returned"
           /\ DirectDone => result = "returned" /\ raised = NoExc

\* C6: fatal errors are never retried: when a call of fn raises a fatal
\* error, that call is the last one, no sleep follows it, and that same
\* exception is raised to the caller, whatever retry budget remains.
C6_FatalNotRetried ==
    \A k \in 1..Len(outcomes) :
        Fatal(outcomes[k]) =>
            /\ k = Len(outcomes)
            /\ Len(slept) = k - 1
            /\ rpc = "raised"
            /\ exc = outcomes[k]
            /\ DirectDone => result = "raised" /\ raised = outcomes[k]

\* C6's case: a 401 on the second attempt of three, raised to the test.
C6_Witness ==
    /\ DirectDone
    /\ num_retries = 2
    /\ fn_calls = 2
    /\ outcomes[2] = HttpError(401, {})
    /\ raised = HttpError(401, {})

FrontTransient(h) == \A k \in 1..(Len(h) - 1) : Transient(h[k])

\* C7: if fn fails with transient errors on its first k attempts, k <=
\* num_retries, and succeeds on attempt k + 1, the loop reaches attempt
\* k + 1 and _call_stackdriver_with_retries returns fn's result without
\* raising after exactly k + 1 calls of fn.
C7_EventualSuccess ==
    /\ (AllTransient(outcomes) /\ Len(outcomes) <= num_retries) =>
           rpc \in {"idle", "call", "sleep"}
    /\ (outcomes # <<>> /\ Last(outcomes).type = "return"
            /\ FrontTransient(outcomes)) =>
           /\ rpc = "returned"
           /\ ret = FN_RESULT
           /\ exc = NoExc
           /\ fn_calls = Len(outcomes)
           /\ DirectDone => result = "returned" /\ raised = NoExc

\* C7's case: two socket errors, then a success on the last permitted
\* attempt: three calls of fn.
C7_Witness ==
    /\ DirectDone
    /\ num_retries = 2
    /\ outcomes = <<Exc("socket.error"), Exc("socket.error"), FnReturns>>
    /\ fn_calls = 3
    /\ result = "returned"

\* send_datapoints_to_stackdriver, called directly or by send_to_stackdriver,
\* is back from a submission that ended in an error
SubmissionFailed ==
    /\ call.method \in {"send_datapoints_to_stackdriver", "send_to_stackdriver"}
    /\ result \in {"returned", "raised"}
    /\ rpc = "raised"

\* The ignore_errors argument of the public call (True when left out)
IgnoreErrorsOfCall ==
    IF call.method = "send_to_stackdriver"
    THEN ArgOr(call.arg_ignore_errors, TRUE)
    ELSE call.ignore_errors

\* C8: when the retried submission of send_datapoints_to_stackdriver ends
\* in an error: with ignore_errors true one WARNING record is logged and the
\* call returns normally; with ignore_errors false one ERROR record is
\* logged and the same exception is raised to the caller. What
\* send_to_stackdriver is given as ignore_errors (True by default) decides
\* in the same way.
C8_IgnoreErrors ==
    SubmissionFailed =>
        IF IgnoreErrorsOfCall
        THEN /\ result = "returned"
             /\ raised = NoExc
             /\ Len(logs) = 1
             /\ logs[1].level = "WARNING"
        ELSE /\ result = "raised"
             /\ raised = exc
             /\ exc = Last(outcomes)
             /\ Len(logs) = 1
             /\ logs[1].level = "ERROR"

\* C8's case: send_to_stackdriver(..., ignore_errors=False) whose submission
\* got a 401: the error is logged and raised.
C8_Witness ==
    /\ SubmissionFailed
    /\ call.method = "send_to_stackdriver"
    /\ call.arg_ignore_errors = <<FALSE>>
    /\ raised = HttpError(401, {})
    /\ logs = <<Log("ERROR", "CLOUD-MONITORING ERROR sending")>>

\* C8's other case: send_to_stackdriver without ignore_errors swallows ten
\* socket errors.
C8_WitnessSwallowed ==
    /\ SubmissionFailed
    /\ call.method = "send_to_stackdriver"
    /\ call.arg_ignore_errors = Omitted
    /\ fn_calls = 10
    /\ result = "returned"
    /\ logs = <<Log("WARNING", "cloud-monitoring error, not sending some data")>>
(***************************************************************************)
(* Test mode (dry-run), checked under Spec.                                *)
(***************************************************************************)
SendMethods ==
    {"send_to_hipchat", "send_to_slack", "send_to_email", "send_to_pagerduty",
     "send_to_logs", "send_to_graphite", "send_to_alerta",
     "send_to_github_commit_status", "send_to_stackdriver", "send_to_asana",
     "_send_to_jira", "send_to_bugtracker"}

\* The calls a send made to the network, a mail transport or syslog
RealCalls == SelectSeq(net, LAMBDA q : q.svc # "time")

\* The records of a send that tell of an error path; the record send_to_logs
\* writes is the alert itself, whatever its level
ErrorRecords ==
    SelectSeq(logs, LAMBDA l : l.level \in {"WARNING", "ERROR", "CRITICAL"}
                               /\ l.text # "self.message")

DryRunSend == call.method \in SendMethods /\ call.test_mode

\* C9: while test mode is active, no send_to_X method of any backend makes a
\* real network, SMTP or syslog call, the lookup requests (project, tag and
\* user lists) of a send included.
C9_DryRunNoRealCalls == DryRunSend => RealCalls = <<>>

\* C10: while test mode is active no send fails: every send_to_X call that
\* has come back has returned without raising, and has logged no error or
\* warning record.
C10_DryRunCannotFail ==
    DryRunSend /\ result \in {"returned", "raised"}
        => result = "returned" /\ ErrorRecords = <<>>

(***************************************************************************)
(* The record of a dry-run send, checked under Spec.                       *)
(***************************************************************************)
\* The texts of the records that say what a send would have sent
WouldSendTexts ==
    {"alertlib: would send to hipchat room", "alertlib: would send to slack channel",
     "alertlib: would send email", "alertlib: would send pagerduty email",
     "alertlib: would send to graphite", "alertlib: would send to aggregator",
     "alertlib: would send to github commit status",
     "alertlib: would send to stackdriver", "alertlib: would send to asana",
     "alertlib: would send to jira"}

WouldSendRecords ==
    SelectSeq(logs, LAMBDA l : l.level = "INFO" /\ l.text \in WouldSendTexts)

\* C11: while test mode is active, every send_to_X call that has passed the
\* rate-limit gate and has come back has written exactly one informational
\* 'would send' record, whatever the backend and whether or not the alert
\* has a summary.
C11_DryRunOneRecord ==
    DryRunSend /\ call.passed /\ result \in {"returned", "raised"}
        => Len(WouldSendRecords) = 1

(***************************************************************************)
(* Issue creation in Asana and Jira, checked under Spec.                   *)
(***************************************************************************)
TrackerMethods == {"send_to_asana", "_send_to_jira", "send_to_bugtracker"}

\* A send to a tracker that has come back to its caller
TrackerSendDone ==
    call.method \in TrackerMethods /\ result \in {"returned", "raised"}

\* The requests of the send that create the task or the issue
Creates == SelectSeq(net, LAMBDA q : q.what \in {"POST tasks", "POST issue"})

\* The answers the send has had to its duplicate check
DupAnswers ==
    IF call.method \in TrackerMethods /\ call.passed
    THEN SelectSeq(frame.answers, LAMBDA r : "holds" \in DOMAIN r)
    ELSE <<>>

\* The tracker held an open task or issue with the title of the new one (for
\* Jira: in the project of the new one) when it gave the answer r
HoldsOpenSame(r) ==
    \E k \in 1..Len(r.holds) :
        IF call.method = "send_to_asana"
        THEN r.holds[k].name = frame.task_name /\ ~r.holds[k].completed
        ELSE /\ r.holds[k].summary = frame.issue_title
             /\ r.holds[k].project = frame.project_key
             /\ ~r.holds[k].done

UniquenessRecords ==
    SelectSeq(logs, LAMBDA l : l.text \in
        {"Failed testing current task for uniqueness. This task might be created as a duplicate.",
         "Failed testing current issue for uniqueness. This issue might be created as a duplicate."})

\* C12: when the duplicate check of send_to_asana / _send_to_jira was
\* answered and the tracker holds an open issue with the title of the new
\* one, the send makes no create request; when the only issue with that
\* title is closed, or there is none, it makes exactly one.
C12_DuplicateSuppression ==
    TrackerSendDone /\ DupAnswers # <<>> /\ DupAnswers[1].kind = "ok"
        => Len(Creates) = IF HoldsOpenSame(DupAnswers[1]) THEN 0 ELSE 1

\* C13: when the request of the duplicate check itself fails (an exception
\* or a status >= 300, whatever its body lists), the send logs that the
\* issue may be a duplicate and still makes exactly one create request.
C13_DupCheckFailsOpen ==
    TrackerSendDone /\ DupAnswers # <<>> /\ DupAnswers[1].kind # "ok"
        => Len(Creates) = 1 /\ Len(UniquenessRecords) = 1

\* A failed duplicate check whose body listed an open task of the same name,
\* after which the task was created
C13_Witness ==
    /\ TrackerSendDone /\ DupAnswers # <<>>
    /\ DupAnswers[1].kind = "failed"
    /\ HoldsOpenSame(DupAnswers[1])
    /\ DupAnswers[1].data # NoData /\ DupAnswers[1].data[1] # <<>>
    /\ Len(Creates) = 1

\* C14: send_to_asana, _send_to_jira and send_to_bugtracker always return
\* to the caller without an exception, whatever the severity, the project
\* name, the labels, the watchers and the outcomes of the requests.
C14_TrackerNeverRaises == TrackerSendDone => result = "returned"

(***************************************************************************)
(* The caches of the Asana resolvers, checked under Spec.                  *)
(***************************************************************************)
\* The bulk list request of each kind of name
AsanaListOf ==
    [project |-> "GET projects", user |-> "GET users", tag |-> "GET tags"]

ListRequests(requests, kind) ==
    Len(SelectSeq(requests, LAMBDA q : q.what = AsanaListOf[kind]))

\* C15: in a process that has an Asana token, for each kind of name
\* (project, tag, user), the step that resolves the kind for the first time
\* makes exactly one list request of that kind, and no step after it makes
\* another one.
C15_ListOnce ==
    [][secret("asana_api_token") =>
          \A kind \in DOMAIN AsanaListOf :
              LET new == ListRequests(net', kind) - ListRequests(net, kind)
              IN /\ kind \in asana_resolved => new <= 0
                 /\ kind \notin asana_resolved /\ kind \in asana_resolved'
                        => new = 1]_vars

(***************************************************************************)
(* Names that resolve to nothing, checked under Spec.                      *)
(***************************************************************************)
\* send_to_asana has passed its gate and its project name is in no cache:
\* the name is unknown, or the list of projects could not be had
AsanaProjectUnresolved ==
    /\ call.method = "send_to_asana" /\ call.passed
    /\ call.args[1] \notin DOMAIN _CACHED_ASANA_PROJECT_MAP

\* _send_to_jira (alone or under send_to_bugtracker) has passed its gate
JiraSend == call.method \in {"_send_to_jira", "send_to_bugtracker"} /\ call.passed

\* Its project name has no key in _BUGTRACKER_TO_JIRA_PROJ
JiraNameUnknown ==
    JiraSend /\ (call.args[1] = Omitted
                 \/ call.args[1][1] \notin DOMAIN _BUGTRACKER_TO_JIRA_PROJ)

\* Its key is not in the list of projects that Jira gave, which is not empty
JiraKeyNotLive ==
    /\ JiraSend /\ ~JiraNameUnknown
    /\ frame.answers # <<>> /\ frame.answers[1].kind = "ok"
    /\ frame.answers[1].data[1] # <<>>
    /\ frame.project_key \notin Range(frame.answers[1].data[1])

HasRecord(level, text) == \E k \in 1..Len(logs) : logs[k] = Log(level, text)

\* C16: when the project of send_to_asana resolves to nothing, the send
\* makes no request but the list of projects, raises nothing, and has logged
\* the error when it returns; _send_to_jira with a name that has no key
\* makes no request at all, and with a key that a non-empty live list of
\* projects lacks it stops after that list; both log an error and return.
C16_UnresolvedProjectAborts ==
    /\ AsanaProjectUnresolved =>
           /\ \A k \in 1..Len(net) : net[k].what = "GET projects"
           /\ result # "raised"
           /\ result = "returned" =>
                  HasRecord("ERROR", "Invalid asana project name; task not created.")
    /\ JiraNameUnknown =>
           /\ net = <<>> /\ result = "returned"
           /\ HasRecord("ERROR", "Invalid Jira project name or no name provided. Failed to send to Jira.")
    /\ JiraKeyNotLive =>
           /\ Len(net) = 1 /\ result = "returned"
           /\ HasRecord("ERROR", "This is no longer a valid Jira project key.")

\* A send_to_asana with a token that got the list of projects, did not find
\* its project there, and came back
C16_Witness ==
    /\ AsanaProjectUnresolved /\ result = "returned"
    /\ DOMAIN _CACHED_ASANA_PROJECT_MAP # {}
    /\ Len(net) = 1

\* A send_to_asana outside test mode whose project resolved, back at its
\* caller
AsanaSendResolved ==
    /\ call.method = "send_to_asana" /\ call.passed /\ ~call.test_mode
    /\ result \in {"returned", "raised"}
    /\ frame.project_ids # <<>>

\* The request for the list (of tags, of users) was made and failed
ListFailed(what) ==
    \E k \in 1..Len(net) : net[k].what = what /\ frame.answers[k].kind # "ok"

Records(level, text) == SelectSeq(logs, LAMBDA l : l = Log(level, text))

\* The duplicate check found an open task with the name of the new one
FoundDuplicate ==
    /\ DupAnswers # <<>> /\ DupAnswers[1].kind = "ok"
    /\ \E k \in 1..Len(DupAnswers[1].data[1]) :
           /\ DupAnswers[1].data[1][k].name = frame.task_name
           /\ ~DupAnswers[1].data[1][k].completed

\* C17: in send_to_asana every tag name and follower email that its cache
\* lacks is logged and left out, the others are kept in the caller's order,
\* and the task is still created (unless it is a duplicate); a user cache
\* that could not be built gives no followers and the task is still
\* created; only a tag cache that could not be built stops the creation.
C17_UnknownNamesDropped ==
    AsanaSendResolved =>
        IF ListFailed("GET tags")
        THEN Creates = <<>> /\ result = "returned"
        ELSE LET T == _CACHED_ASANA_TAG_MAP
                 U == _CACHED_ASANA_USER_MAP
                 good_tags == SelectSeq(frame.tags, LAMBDA n : n \in DOMAIN T)
                 good_users == SelectSeq(frame.followers, LAMBDA e : e \in DOMAIN U)
             IN /\ frame.tag_ids = Concat([k \in 1..Len(good_tags) |-> T[good_tags[k]]])
                /\ frame.follower_ids = [k \in 1..Len(good_users) |-> U[good_users[k]]]
                /\ Len(Records("ERROR", "Invalid asana tag name"))
                       = Len(frame.tags) - Len(good_tags)
                /\ Len(Records("ERROR", "Invalid asana user email"))
                       = IF ListFailed("GET users") THEN 0
                         ELSE Len(frame.followers) - Len(good_users)
                /\ result = "returned"
                /\ Len(Creates) = IF FoundDuplicate THEN 0 ELSE 1

(***************************************************************************)
(* The tags of an Asana task, checked under Spec.                          *)
(***************************************************************************)
\* The reserved priority tags, by severity, as the claim gives them
PriorityTagOf ==
    (INFO :> "P4") @@ (WARNING :> "P3") @@ (ERROR :> "P2") @@ (CRITICAL :> "P1")

\* C18: the tags send_to_asana resolves are the caller's tags, then, unless
\* one of those is a reserved priority tag (P1..P4), exactly one priority
\* tag derived from the severity (P4 for INFO, P3 for WARNING, P2 for
\* ERROR, P1 for CRITICAL), then 'Auto generated'.
C18_PriorityTagTieBreak ==
    call.method = "send_to_asana" /\ call.passed =>
        LET given == ArgOr(call.args[2], <<>>)
            reserved == {PriorityTagOf[s] : s \in DOMAIN PriorityTagOf}
            n == Len(frame.tags)
        IN /\ n >= 1 /\ frame.tags[n] = "Auto generated"
           /\ SubSeq(frame.tags, 1, Len(given)) = given
           /\ IF Range(given) \cap reserved # {}
              THEN n = Len(given) + 1
              ELSE /\ n = Len(given) + 2
                   /\ frame.tags[n - 1] \in reserved
                   /\ call.self.severity \in DOMAIN PriorityTagOf
                          => frame.tags[n - 1] = PriorityTagOf[call.self.severity]

(***************************************************************************)
(* The metric name of send_to_stackdriver, checked under Spec.             *)
(***************************************************************************)
\* send_to_stackdriver was called with a name longer than the limit leaves
\* after the prefix
LongName ==
    /\ call.method = "send_to_stackdriver"
    /\ Len(call.metric_name) > MetricNameLimit - MetricPrefixLen

ShortName ==
    /\ call.method = "send_to_stackdriver"
    /\ Len(call.metric_name) <= MetricNameLimit - MetricPrefixLen

\* The call raised ValueError with no call to the network and no attempt
RaisedValueError ==
    /\ result = "raised" /\ raised = Exc("ValueError")
    /\ net = <<>> /\ fn_calls = 0 /\ slept = <<>> /\ rpc = "idle"

\* The metric type of the datapoint is the prefix and the name with every
\* character that is no word character and no '.' replaced by '_', and has
\* at most 100 characters
NormalizedType ==
    LET name == call.metric_name
        type == call.metric_type
    IN /\ Len(type) = Len(name) + 1
       /\ type[1] = "custom.googleapis.com/"
       /\ \A k \in 1..Len(name) :
              type[k + 1] = IF name[k] \in WordChars \cup {"."} THEN name[k] ELSE "_"
       /\ MetricPrefixLen + Len(type) - 1 <= MetricNameLimit

\* C19 as claimed: a send_to_stackdriver call with a name longer than the
\* limit raises ValueError without a network call or an attempt, whatever
\* ignore_errors, test mode and the rate-limit state of the alert are; with a
\* name within the limit the metric type is the normalized name.
C19_LongNameAlwaysRaises ==
    /\ LongName => RaisedValueError
    /\ ShortName /\ call.passed => NormalizedType

\* C19 as amended: the same for a call that has passed the rate-limit gate;
\* a call that the gate stops returns with nothing done, whatever the name.
C19_LongNameRaisesPastGate ==
    /\ LongName /\ call.passed => RaisedValueError
    /\ ShortName /\ call.passed => NormalizedType
    /\ call.method = "send_to_stackdriver" /\ ~call.passed =>
           /\ result = "returned" /\ net = <<>> /\ logs = <<>>
           /\ fn_calls = 0 /\ call.metric_type = <<>>

\* A call in test mode with ignore_errors left out and a name one character
\* too long, which raised
C19_Witness ==
    /\ LongName /\ call.passed /\ call.test_mode
    /\ call.arg_ignore_errors = Omitted
    /\ Len(call.metric_name) = MetricNameLimit - MetricPrefixLen + 1
    /\ RaisedValueError

(***************************************************************************)
(* Missing secrets, checked under Spec.                                    *)
(***************************************************************************)
\* A send, outside test mode and past its gate, of a backend whose secret
\* (hipchat token, slack webhook, asana token, jira key, google credential)
\* is not in secrets.py, back at its caller
MissingSecretSend ==
    /\ call.method \in {"send_to_hipchat", "send_to_slack", "send_to_asana",
                        "_send_to_jira", "send_to_bugtracker",
                        "send_to_stackdriver"}
    /\ call.passed /\ ~call.test_mode
    /\ secrets = {}
    /\ result \in {"returned", "raised"}
    /\ ~LongName

\* C20: when the secret a backend needs is absent, the send is skipped (no
\* call leaves the process), the skip is logged, and no exception reaches
\* the caller.
C20_MissingSecretNeverRaises ==
    MissingSecretSend => result = "returned" /\ RealCalls = <<>> /\ logs # <<>>

(***************************************************************************)
(* The summary of an Alert, checked under SpecSummary.                     *)
(***************************************************************************)
\* The label of each severity, as the claim gives it; a label is one element
\* of the summary, and the empty label none
SeverityLabel(severity) ==
    CASE severity = WARNING -> <<"WARNING: ">>
      [] severity = ERROR -> <<"ERROR: ">>
      [] severity = CRITICAL -> <<"**CRITICAL ERROR**: ">>
      [] severity = DEBUG -> <<"(debug info) ">>
      [] OTHER -> <<>>

EntryOrInfo(severity_map, severity) ==
    IF severity \in DOMAIN severity_map THEN severity_map[severity]
    ELSE severity_map[INFO]

\* C22: in every backend the value looked up for the severity of the Alert
\* is the entry of the backend's map, or the entry for INFO when the map has
\* none: the colour of each hipchat post (when the caller gave none) and of
\* each slack attachment, the syslog priority, a priority tag among the tags
\* of an Asana task (when the caller gave none), the priority of a Jira
\* issue and the severity of an alerta alert; no lookup raises KeyError.
C22_SeverityLookupTotal ==
    call.method \in SendMethods /\ call.passed =>
        LET severity == call.self.severity
        IN /\ call.method = "send_to_hipchat" /\ call.args[2] = Omitted =>
                  \A k \in 1..Len(net) : net[k].svc = "hipchat" =>
                      net[k].arg[1].color
                          = EntryOrInfo(_LOG_PRIORITY_TO_HIPCHAT_COLOR, severity)
           /\ call.method = "send_to_slack" =>
                  \A k \in 1..Len(net) : net[k].arg[1].attachments # <<>> =>
                      net[k].arg[1].attachments[1].color
                          = EntryOrInfo(_LOG_PRIORITY_TO_SLACK_COLOR, severity)
           /\ call.method = "send_to_logs" =>
                  \A k \in 1..Len(net) :
                      net[k].arg[1] = EntryOrInfo(_LOG_TO_SYSLOG, severity)
           /\ call.method = "send_to_asana" /\ call.args[2] = Omitted =>
                  EntryOrInfo(_LOG_PRIORITY_TO_ASANA_TAG, severity)
                      \in Range(frame.tags)
           /\ JiraSend /\ ~JiraNameUnknown
                  /\ frame.project_key \in DOMAIN _PROJECT_TO_ISSUETYPE_ID =>
                  /\ raised.type # "KeyError"
                  /\ \A k \in 1..Len(net) : net[k].what = "POST issue" =>
                         net[k].arg[1].priority
                             = EntryOrInfo(_SEVERITY_TO_JIRA_PRIORITY, severity)
           /\ call.method = "send_to_alerta" /\ call.args[2] # Omitted
                  /\ call.args[3] # Omitted
                  /\ call.args[2][1] \in DOMAIN MAP_RESOURCE_TO_ENV_SERVICE_AND_GROUP =>
                  /\ raised.type # "KeyError"
                  /\ \A k \in 1..Len(net) :
                         net[k].arg[1].severity
                             = EntryOrInfo(_SEVERITY_TO_ALERTA_FORMAT, severity)

(***************************************************************************)
(* Chaining, checked under Spec.                                           *)
(***************************************************************************)
\* C23: every send_to_X call that returns normally - sent, stopped by the
\* gate, in test mode, aborted or failed and logged - returns the Alert it
\* was called on.
C23_Fluent ==
    call.method \in SendMethods /\ result = "returned" => call.returns = "self"

(***************************************************************************)
(* The two posts of send_to_hipchat, checked under Spec.                   *)
(***************************************************************************)
\* A send_to_hipchat outside test mode that has come back
HipchatSendDone ==
    /\ call.method = "send_to_hipchat" /\ ~call.test_mode
    /\ result \in {"returned", "raised"}

\* The request q posts text to the room of the call
PostsToRoom(q, text) ==
    /\ q.svc = "hipchat" /\ q.what = "rooms/message"
    /\ q.arg[1].room_id = call.args[1]
    /\ q.arg[1].message = text

\* What the send did is: the post of the summary, a pause of a second, the
\* post of the message, when the Alert has a summary; else the post of the
\* message alone
SummaryThenBody ==
    LET self == call.self
        message == Prefix(self.message, MaxChatLen)
        body == IF self.html THEN message ELSE _nix_bad_emoticons(message)
    IN IF TruthyStr(self.summary)
       THEN /\ Len(net) = 3
            /\ PostsToRoom(net[1], _nix_bad_emoticons(self.summary[1]))
            /\ net[2] = Req("time", "sleep", <<1>>)
            /\ PostsToRoom(net[3], body)
       ELSE Len(net) = 1 /\ PostsToRoom(net[1], body)

\* C24 as claimed: outside test mode send_to_hipchat makes the post of the
\* summary, then pauses, then makes the post of the message, and no other
\* post; without a summary it makes the post of the message alone.
C24_SummaryBeforeBody == HipchatSendDone => SummaryThenBody

\* C24 as amended: the same for a send that passed the rate-limit gate in a
\* process that has the hipchat token; without the token no post is made.
C24_SummaryBeforeBodyWithToken ==
    HipchatSendDone /\ call.passed =>
        IF secret("hipchat_alertlib_token") THEN SummaryThenBody
        ELSE RealCalls = <<>>

\* A send of an Alert with a summary whose summary post failed: the message
\* was posted after it all the same
C24_Witness ==
    /\ HipchatSendDone /\ call.passed /\ secret("hipchat_alertlib_token")
    /\ TruthyStr(call.self.summary)
    /\ Len(net) = 3
    /\ logs = <<Log("ERROR", "Failed sending to hipchat")>>

(***************************************************************************)
(* The addresses of send_to_email and send_to_pagerduty, checked under     *)
(* Spec.                                                                   *)
(***************************************************************************)
\* An argument of send_to_email (a list, or None) has an entry with an '@'
\* that does not end in '@khanacademy.org'
HasForeignAddress(lst) ==
    /\ lst # Omitted
    /\ \E k \in 1..Len(lst[1]) :
           LET e == lst[1][k]
           IN /\ HasAt(e)
              /\ ~(Len(e) >= 2 /\ e[Len(e) - 1] = "@"
                   /\ e[Len(e)] = "khanacademy.org")

\* The call raised ValueError and handed no mail to any transport
RaisedBeforeMail ==
    result = "raised" /\ raised = Exc("ValueError") /\ net = <<>>

WouldSendOf(c) ==
    Len(SelectSeq(c.logs, LAMBDA l : l.level = "INFO" /\ l.text \in WouldSendTexts))

\* C26: on an Alert with rate_limit R, a call in test mode that passes the
\* gate writes exactly one 'would send' record, and every later call on the
\* same backend less than R after it - in test mode or, after
\* exit_test_mode(), outside it - is skipped: it writes no record and makes
\* no request. So the calls in test mode inside a window shorter than R
\* write one record in all.
C26_DryRunRateLimited ==
    \A a \in Alerts, s \in RateServices :
        Truthy(rate_limit[a]) =>
            LET h == calls[a][s]
                R == rate_limit[a][1]
            IN \A p \in 1..Len(h) :
                   h[p].passed /\ h[p].test_mode =>
                       /\ WouldSendOf(h[p]) = 1
                       /\ h[p].net = <<>>
                       /\ \A j \in (p + 1)..Len(h) :
                              h[j].t - h[p].t < R =>
                                  /\ ~h[j].passed
                                  /\ h[j].logs = <<>> /\ h[j].net = <<>>

(***************************************************************************)
(* The first call on an Alert with a rate limit, checked under SpecGate.   *)
(***************************************************************************)
\* C30: on an Alert with a positive rate_limit, the first call of a
\* send_to_X method passes the gate, whatever the rate_limit and the clock.
C30_FirstCallPasses ==
    \A a \in Alerts, s \in RateServices :
        Truthy(rate_limit[a]) /\ calls[a][s] # <<>> => calls[a][s][1].passed

(***************************************************************************)
(* What the duplicate check looks at, checked under Spec.                  *)
(***************************************************************************)
\* The tracker held an open task or issue with the title of the new one in
\* the project of the new one when it gave the answer r
HoldsOpenSameInProject(r) ==
    \E k \in 1..Len(r.holds) :
        IF call.method = "send_to_asana"
        THEN /\ r.holds[k].name = frame.task_name /\ ~r.holds[k].completed
             /\ r.holds[k].projects \cap Range(frame.project_ids) # {}
        ELSE /\ r.holds[k].summary = frame.issue_title
             /\ r.holds[k].project = frame.project_key
             /\ ~r.holds[k].done

\* C27: the duplicate check of _send_to_jira searches the resolved project
\* for the title that goes into the create payload; and when the check of
\* send_to_asana or _send_to_jira is answered and the tracker holds no open
\* issue with that title in that project - only one in another project, or
\* one with another title - the issue is created.
C27_DupCheckMatchesIssue ==
    TrackerSendDone /\ DupAnswers # <<>> =>
        /\ \A k \in 1..Len(net) :
               net[k].what = "GET search" =>
                   net[k].arg = <<frame.project_key, frame.issue_title>>
        /\ DupAnswers[1].kind = "ok" /\ ~HoldsOpenSameInProject(DupAnswers[1])
               => Len(Creates) = 1

(***************************************************************************)
(* The watchers of a Jira issue, checked under Spec.                       *)
(***************************************************************************)
\* The places in net of the requests that create the issue, and of those
\* that add a watcher to it
CreatePosts == {k \in 1..Len(net) : net[k].what = "POST issue"}

WatcherPosts == {k \in 1..Len(net) : net[k].what = "POST issue/watchers"}

\* The create request of the send has been answered with the new issue
IssueCreated ==
    \E j \in CreatePosts : j <= Len(frame.answers) /\ frame.answers[j].kind = "ok"

\* C28: in _send_to_jira every request that adds a watcher comes after the
\* create request and its answer, and names the key of that answer; no
\* request but adding watchers follows it; every failed request is logged;
\* once the issue is created the send returns, having asked for every
\* resolved watcher in turn whatever the answers were; and with no resolved
\* watcher no such request is made.
C28_WatchersSecondPass ==
    JiraSend =>
        /\ \A k \in WatcherPosts :
               /\ \E j \in CreatePosts :
                      /\ j < k /\ j <= Len(frame.answers)
                      /\ frame.answers[j].kind = "ok"
                      /\ net[k].arg[1] = frame.answers[j].data[1].key
               /\ \A j \in (k + 1)..Len(net) : j \in WatcherPosts
        /\ Len(Records("ERROR", "Failed sending to Jira"))
               = Cardinality({k \in 1..Len(frame.answers) :
                                  frame.answers[k].kind = "failed"})
        /\ IssueCreated /\ result # "running" =>
               /\ result = "returned"
               /\ Cardinality(WatcherPosts) = Len(frame.jira_watchers)
               /\ \A k \in WatcherPosts :
                      \E n \in 1..Len(frame.jira_watchers) :
                          /\ net[k].arg[2] = frame.jira_watchers[n]
                          /\ Cardinality({j \in WatcherPosts : j < k}) = n - 1
        /\ frame.jira_watchers = <<>> => WatcherPosts = {}

\* A send that has returned after the request for its first watcher failed
\* and the second was asked for
C28_Witness ==
    /\ JiraSend /\ result = "returned" /\ IssueCreated
    /\ Cardinality(WatcherPosts) = 2
    /\ \E k \in WatcherPosts :
           /\ k < Len(net) /\ frame.answers[k].kind = "failed"

(***************************************************************************)
(* The tag of the duplicate check of send_to_asana, checked under Spec.    *)
(***************************************************************************)
\* The ids of the tags named 'Auto generated' in the workspace of the model
AutoGeneratedIds ==
    {AsanaTagList[k].id : k \in {j \in 1..Len(AsanaTagList) :
                                     AsanaTagList[j].name = "Auto generated"}}

\* C29: the duplicate check of send_to_asana asks for the tasks of an
\* 'Auto generated' tag and of no other, and send_to_asana does not end in
\* IndexError for want of a tag.
C29_DupCheckByAutoGenerated ==
    call.method = "send_to_asana" /\ call.passed =>
        /\ \A k \in 1..Len(net) :
               net[k].what = "GET tasks?tag" => net[k].arg[1] \in AutoGeneratedIds
        /\ ~(result = "raised" /\ raised = Exc("IndexError"))

(***************************************************************************)
(* The caller's lists, checked under SpecScript.                           *)
(***************************************************************************)
\* How often x is in the list lst
Count(lst, x) == Cardinality({k \in 1..Len(lst) : lst[k] = x})

\* C31: a call of send_to_asana, send_to_bugtracker or send_to_pagerduty
\* leaves in the caller's list what it was given; two calls of one method
\* with the same list object that both get to their tags, labels or
\* addresses use the same ones, with 'Auto generated' or 'auto_generated'
\* once; and a second call of send_to_pagerduty does not raise.
C31_ArgumentsUnchanged ==
    /\ \A k \in 1..Len(history) : history[k].left = history[k].given
    /\ \A j, k \in 1..Len(history) :
           /\ j < k /\ history[j].method = history[k].method
           /\ history[j].used # <<>> /\ history[k].used # <<>>
           => history[k].used = history[j].used
    /\ \A k \in 1..Len(history) :
           history[k].used # <<>> =>
               CASE history[k].method = "send_to_asana" ->
                        Count(history[k].used[1], "Auto generated") = 1
                 [] history[k].method = "send_to_bugtracker" ->
                        Count(history[k].used[1], "auto_generated") = 1
                 [] OTHER -> TRUE
    /\ \A k \in 1..Len(history) :
           history[k].method = "send_to_pagerduty" => history[k].result = "returned"

(***************************************************************************)
(* The rate-limit slot of a send that failed, checked under SpecSlot.      *)
(***************************************************************************)
\* The call c of the history handed its message over: its body returned
\* with a request made and no error logged
Delivered(c) ==
    /\ c.passed /\ c.result = "returned" /\ c.net # <<>>
    /\ \A k \in 1..Len(c.logs) : c.logs[k].level \notin {"ERROR", "WARNING"}
    /\ c.s = "asana" => \E k \in 1..Len(c.net) : c.net[k].what = "POST tasks"

\* C32: on an Alert with rate_limit R, a call that passed the gate keeps
\* its time in last_sent whether it delivered or not, and every later call
\* to that backend within R of it is skipped: last_sent holds the time of
\* the last call that passed, and a call no more than R after one that
\* passed does not pass and does nothing.
C32_SlotTakenByGate ==
    \A p \in 1..Len(history) :
        LET c == history[p]
            R == rate_limit[c.a][1]
        IN c.passed =>
               /\ c.s \in DOMAIN last_sent[c.a]
               /\ last_sent[c.a][c.s] >= c.t
               /\ \E q \in 1..Len(history) :
                      /\ history[q].a = c.a /\ history[q].s = c.s
                      /\ history[q].passed /\ history[q].t = last_sent[c.a][c.s]
               /\ \A j \in (p + 1)..Len(history) :
                      history[j].a = c.a /\ history[j].s = c.s
                          /\ history[j].t - c.t <= R =>
                          /\ ~history[j].passed
                          /\ history[j].logs = <<>> /\ history[j].net = <<>>

\* A send_to_email that passed the gate and raised ValueError, and a second
\* one within the rate limit that was skipped
C32_Witness ==
    \E p, j \in 1..Len(history) :
        /\ p < j /\ history[p].s = "email" /\ history[j].s = "email"
        /\ history[p].passed /\ history[p].result = "raised"
        /\ ~Delivered(history[p])
        /\ ~history[j].passed /\ history[j].t > history[p].t

(***************************************************************************)
(* The waits of the retry loop, checked under SpecRetry.                   *)
(***************************************************************************)
\* C33: _call_stackdriver_with_retries sleeps wait_time, the same every
\* time, once after each attempt that it retries and at no other time: it
\* goes to sleep only after a transient error on an attempt that is not the
\* last, and when it has ended after a attempts it has slept a - 1 times.
C33_FlatWait ==
    rpc # "idle" =>
        /\ \A k \in 1..Len(slept) : slept[k] = wait_time
        /\ Len(slept) = IF rpc = "call" THEN fn_calls ELSE fn_calls - 1
        /\ rpc = "sleep" => /\ Transient(Last(outcomes))
                            /\ fn_calls <= num_retries
        /\ Finished => Len(slept) = fn_calls - 1 /\ Len(slept) <= num_retries

\* Two transient errors and a success: three attempts and two waits of the
\* default 0.5 s
C33_Witness ==
    /\ DirectDone /\ result = "returned"
    /\ fn_calls = 3
    /\ wait_time = DefaultWaitTime
    /\ slept = <<DefaultWaitTime, DefaultWaitTime>>


(***************************************************************************)
(* The project list of the bug tracker, checked under SpecScript.          *)
(***************************************************************************)
\* C34: across the send_to_bugtracker calls of one process the project
\* list of the tracker is requested on the first call only: a call that
\* comes after another send_to_bugtracker call makes no project-list
\* request.
C34_ProjectListOnce ==
    \A j, k \in 1..Len(history) :
        /\ j < k
        /\ history[j].method = "send_to_bugtracker"
        /\ history[k].method = "send_to_bugtracker"
        => ~history[k].listed

(***************************************************************************)
(* The Asana caches once they hold names, checked under Spec.              *)
(***************************************************************************)
\* The three caches by kind of name
AsanaCache ==
    [project |-> _CACHED_ASANA_PROJECT_MAP, user |-> _CACHED_ASANA_USER_MAP,
     tag |-> _CACHED_ASANA_TAG_MAP]

\* C35: once a cache (project, tag or user) holds names, no step of any
\* send_to_asana call changes it or makes another list request of its kind;
\* a send whose project is not in the project cache logs "Invalid asana
\* project name" and ends without a request, and a send that gets to its
\* duplicate check with the tag cache built before it logs "Invalid asana
\* tag name" once for each of its tags that the cache does not hold.
C35_CachesFixed ==
    [][/\ \A kind \in DOMAIN AsanaListOf :
              DOMAIN AsanaCache[kind] # {} =>
                  /\ AsanaCache[kind]' = AsanaCache[kind]
                  /\ ListRequests(net', kind) <= ListRequests(net, kind)
       /\ /\ DOMAIN _CACHED_ASANA_PROJECT_MAP # {}
          /\ call = NoCall /\ call'.method = "send_to_asana" /\ call'.passed
          /\ call'.args[1] \notin DOMAIN _CACHED_ASANA_PROJECT_MAP
          => /\ net' = <<>> /\ result' = "returned"
             /\ logs' = <<Log("ERROR", "Invalid asana project name; task not created.")>>
       /\ /\ DOMAIN _CACHED_ASANA_TAG_MAP # {}
          /\ pc # "asana:dup" /\ pc' = "asana:dup"
          => /\ ListRequests(net', "tag") = 0
             /\ Len(Records("ERROR", "Invalid asana tag name"))' =
                    Len(SelectSeq(frame'.tags,
                                  LAMBDA n : n \notin DOMAIN _CACHED_ASANA_TAG_MAP))
             /\ \A k \in 1..Len(frame'.tag_ids) :
                    \E n \in DOMAIN _CACHED_ASANA_TAG_MAP :
                        frame'.tag_ids[k] \in Range(_CACHED_ASANA_TAG_MAP[n])
      ]_vars

\* A send_to_asana that found the tag cache built without 'Auto generated',
\* made no list request for tags, logged the name as invalid and went on to
\* its duplicate check
C35_Witness ==
    /\ call.method = "send_to_asana" /\ call.passed
    /\ pc = "asana:dup"
    /\ DOMAIN _CACHED_ASANA_TAG_MAP # {}
    /\ "Auto generated" \notin DOMAIN _CACHED_ASANA_TAG_MAP
    /\ ListRequests(net, "tag") = 0
    /\ Records("ERROR", "Invalid asana tag name") # <<>>
    /\ "Auto generated" \in Range(frame.tags)

(***************************************************************************)
(* The two tables of jira.py, checked under Spec.                          *)
(***************************************************************************)
\* C36: every project key that a name of _BUGTRACKER_TO_JIRA_PROJ maps to
\* has an entry in _PROJECT_TO_ISSUETYPE_ID, and no _send_to_jira with a
\* name of the first table raises KeyError.
C36_TablesConsistent ==
    /\ \A n \in DOMAIN _BUGTRACKER_TO_JIRA_PROJ :
           _BUGTRACKER_TO_JIRA_PROJ[n] \in DOMAIN _PROJECT_TO_ISSUETYPE_ID
    /\ JiraSend /\ ~JiraNameUnknown => raised.type # "KeyError"

(***************************************************************************)
(* The create request of a send to a tracker, checked under Spec.          *)
(***************************************************************************)
\* The send has logged that it gives up before its duplicate check
TrackerAborted ==
    \E k \in 1..Len(logs) : logs[k].text \in
        {"Invalid asana project name; task not created.",
         "Failed to build Asana tags cache. Task will not be created",
         "Invalid Jira project name or no name provided. Failed to send to Jira.",
         "This is no longer a valid Jira project key."}

\* C37: a send_to_asana or _send_to_jira call (alone or under
\* send_to_bugtracker) makes at most one create request; the request just
\* before a create request is the duplicate check of the call, and it has
\* been answered; and a call that was rate-limited, that gave up, or that
\* was made in test mode makes no create request.
C37_OneCreateAfterCheck ==
    call.method \in TrackerMethods =>
        /\ Len(Creates) <= 1
        /\ \A k \in 1..Len(net) :
               net[k].what \in {"POST tasks", "POST issue"} =>
                   /\ call.passed /\ k > 1
                   /\ net[k - 1].what \in {"GET tasks?tag", "GET search"}
                   /\ Len(frame.answers) >= k - 1
        /\ ~call.passed \/ call.test_mode \/ TrackerAborted => Creates = <<>>

\* A _send_to_jira that was told there is no such issue and then made its
\* one create request
C37_Witness ==
    /\ call.method = "_send_to_jira" /\ call.passed /\ ~call.test_mode
    /\ pc = "jira:create"
    /\ Len(Creates) = 1
    /\ DupAnswers # <<>> /\ DupAnswers[1].kind = "ok"
    /\ net[Len(net)].what = "POST issue"

(***************************************************************************)
(* Two threads that fill the caches, checked under SpecRace.               *)
(***************************************************************************)
\* Thread th was given the list of the kind by the Asana API: it passed the
\* test for an empty cache and stores what it was given
Fetched(th, kind) ==
    LET t == Thread(th)
    IN /\ t # NoThread
       /\ \E k \in 1..Len(t.net) :
              /\ t.net[k].what = AsanaListOf[kind]
              /\ k <= Len(t.frame.answers)
              /\ t.frame.answers[k].kind = "ok"
              /\ t.frame.answers[k].data[1] # <<>>

\* Both threads have come back from send_to_asana
BothBack == \A th \in RaceThreads : Thread(th).result \in {"returned", "raised"}

\* No name of the cache of the kind has an id more than most times, and no
\* task that a thread has asked to create has one more often in its list
IdsAtMost(kind, most) ==
    /\ \A n \in DOMAIN AsanaCache[kind] :
           \A id \in Range(AsanaCache[kind][n]) :
               Count(AsanaCache[kind][n], id) <= most
    /\ \A th \in RaceThreads :
           \A k \in 1..Len(Thread(th).net) :
               Thread(th).net[k].what = "POST tasks" =>
                   LET post_dict == Thread(th).net[k].arg[1]
                       ids == IF kind = "tag" THEN post_dict.tags
                              ELSE post_dict.projects
                   IN \A id \in Range(ids) : Count(ids, id) <= most

\* C38 as stated: when two threads have both fetched the list of tags (or of
\* projects) and have come back, each name of that cache has each id at
\* most once, and so has the list of each task they asked to create.
C38_RaceAtMostOnce ==
    \A kind \in {"project", "tag"} :
        BothBack /\ (\A th \in RaceThreads : Fetched(th, kind))
            => IdsAtMost(kind, 1)

\* C38, amended: at any time each name of the tag (or project) cache has
\* each id at most once for each thread that has fetched the list, so at
\* most twice with two threads, and so has the list of each task the
\* threads asked to create.
C38_RaceOncePerThread ==
    \A kind \in {"project", "tag"} :
        IdsAtMost(kind, Cardinality({th \in RaceThreads : Fetched(th, kind)}))

\* Both threads fetched the tags and have come back; the cache has the id of
\* 'P2' twice, and so has a task that was created
C38_Witness ==
    /\ BothBack
    /\ \A th \in RaceThreads : Fetched(th, "tag")
    /\ _CACHED_ASANA_TAG_MAP["P2"] = <<22, 22>>
    /\ \E th \in RaceThreads :
           \E k \in 1..Len(Thread(th).net) :
               /\ Thread(th).net[k].what = "POST tasks"
               /\ Count(Thread(th).net[k].arg[1].tags, 22) = 2

(***************************************************************************)
(* The test-mode flag, checked under SpecFlag.                             *)
(***************************************************************************)
\* Of the first k calls of the history, the last one to enter_test_mode or
\* exit_test_mode was enter_test_mode
EnteredLast(k) ==
    LET flag == {j \in 1..k : history[j].op \in {"enter", "exit"}}
    IN flag # {} /\ history[SetMax(flag)].op = "enter"

\* The send did what a dry run does: it logged what it would send and made
\* no request
WasDryRun(did) ==
    /\ did.net = <<>>
    /\ \E k \in 1..Len(did.logs) :
           did.logs[k].level = "INFO" /\ did.logs[k].text \in WouldSendTexts

\* C39: after any sequence of enter_test_mode() and exit_test_mode() calls
\* the flag is set iff the last of them was enter_test_mode(), however many
\* enters came before an exit; and a send is a dry run iff the flag is set
\* when it is called, whether its Alert was made before or after the flag
\* was changed.
C39_FlagIsLastCall ==
    /\ TEST_MODE = EnteredLast(Len(history))
    /\ \A k \in 1..Len(history) :
           history[k].op = "send" =>
               /\ history[k].did.passed
               /\ history[k].did.test_mode = EnteredLast(k - 1)
               /\ WasDryRun(history[k].did) <=> EnteredLast(k - 1)

\* An Alert made before test mode was entered twice, sent as a dry run,
\* and sent for real after one exit_test_mode()
C39_Witness ==
    /\ Len(history) = 6
    /\ history[1] = [op |-> "construct", a |-> "a1"]
    /\ history[2].op = "enter" /\ history[3].op = "enter"
    /\ history[4].op = "send" /\ history[4].a = "a1" /\ WasDryRun(history[4].did)
    /\ history[5].op = "exit"
    /\ history[6].op = "send" /\ history[6].a = "a1"
    /\ history[6].did.net # <<>> /\ ~WasDryRun(history[6].did)
    /\ ~TEST_MODE
====
